---------------------------- MODULE Spec2Model ----------------------------
(***************************************************************************)
(* Debt sizing, amortisation and cash-flow aggregation of the renewable    *)
(* asset platform (src/backend/calculations/debt.py, cashflow.py).         *)
(*                                                                         *)
(* Number representation.  The program computes in binary floating point.  *)
(* The model computes in integers: money in whole currency units, an       *)
(* interest rate or a gearing in percent (5 is 0.05), a DSCR in hundredths *)
(* (140 is 1.40).  x * rate is (x * ratePct) \div 100 and x / dscr is      *)
(* (x * 100) \div dscr100, i.e. results are floored to the unit.           *)
(* A ratio that the program returns (gearing) is kept as num/den.          *)
(***************************************************************************)
EXTENDS Integers, Sequences, FiniteSets, TLC

(***************************************************************************)
(* Bounds of the model.                                                    *)
(***************************************************************************)
MaxYears == 2          \* longest annual cash-flow series
MaxTenor == 2          \* longest tenor_years

(***************************************************************************)
(* Program constants.                                                      *)
(***************************************************************************)
RepaidTolerance == 1000   \* debt.py:87   debt_balance[tenor_years] < 1000
tolerance == 1000         \* debt.py:129
max_iterations == 50      \* debt.py:130

(***************************************************************************)
(* Input domains.                                                          *)
(***************************************************************************)
CashValues   == {-2000, 6000, 1200000}
TargetValues == {0, 100, 150}
RateValues   == {0, 5, 10}
DebtValues   == {0, 500, 1000, 6000, 20000, 1000000}
CapexValues  == {0, 1000, 20000, 64000}
GearingValues == {0, 70, 100}

\* generate_debt_schedule
MaxMonths == 16                       \* rows of date_range (the model horizon)
GenDebtValues    == {0, 12000, 48000}
TotalCapexValues == {0, 24000}
CapexProfiles    == {"straight", "front"}
CodMonths        == {2, 3}            \* month index of operating start (0 = January)
CodDays          == {1, 15}
LifeValues       == {1}               \* assetLife, years
GenRateValues    == {0, 12}
\* monthly CFADS of the operating months: <<even months, odd months>>, or no rows
CfadsShapes      == {<<-1000, -1000>>, <<900, 900>>, <<30000, 900>>}
\* blended_dscr by calendar year: <<year 0, later years>>, or no year keys
DscrShapes       == {<<0, 0>>, <<100, 100>>, <<150, 100>>}

\* calculate_debt_schedule
MaxAssets == 2                        \* assets in the portfolio
\* 'capex' of an asset's entry in debt_assumptions ("none": the asset has no entry)
CapexChoices == {"none", "zero", "positive"}
CapexOf(choice) == IF choice = "positive" THEN 24000 ELSE 0
\* monthly revenue and opex of an operating month ("none": no rows for the asset)
CashChoices == {"none", "low", "high"}
ProfileOf(choice) ==
    IF choice = "low" THEN [contracted |-> 300,  merchant |-> 0,    opex |-> 100]
                      ELSE [contracted |-> 2000, merchant |-> 2000, opex |-> 500]
Methods     == {"dscr", "annuity", "irr"}
Frequencies == {"monthly", "quarterly", "weekly"}

\* In the loops below each step is bound to its value (s2 \in {Step(s)}) before the
\* recursive call, so that it is evaluated once.
Min(a, b) == IF a < b THEN a ELSE b
Max(a, b) == IF a > b THEN a ELSE b

\* Sequences over S of length 0..n
SeqUpTo(S, n) == UNION {[1..k -> S] : k \in 0..n}

\* Python's None, and a value that is not None (so that `x is None` can be asked)
None == [kind |-> "None"]
Val(x) == [kind |-> "value", v |-> x]
IsNone(x) == x.kind = "None"

VARIABLES
    \* arguments shared by calculate_annual_debt_schedule and solve_maximum_debt
    cash_flows, target_dscrs, interest_rate, tenor_years,
    \* calculate_annual_debt_schedule
    debt_amount, year, debt_balance, interest_payments, principal_payments,
    debt_service, metrics, apc,
    \* solve_maximum_debt
    capex, max_gearing, lower_bound, upper_bound, best_debt, best_schedule,
    iteration, test_debt, result, pc,
    \* generate_debt_schedule: its arguments (gen), the DataFrame being filled, the
    \* loop index and the two accumulators
    gen, schedule, row_i, balance, quarterly_interest_accumulator, gpc,
    \* calculate_debt_schedule: its arguments (call), the index of the next asset, the
    \* two result lists, optimal_debt of each processed asset, the exception raised
    call, asset_i, all_debt_schedules, updated_capex_schedules, optimal_debts,
    raised, ppc,
    \* aggregate_cashflows: its arguments (agg), the merged DataFrame, the index of
    \* the next asset_info of the terminal-value loop, the lines it has written to
    \* standard output
    agg, cash_flow, asset_info_i, printed, cpc,
    \* run_cashflow_model: the asset list and the cost assumptions it reads, the
    \* model horizon it derives
    ASSETS, ASSET_COST_ASSUMPTIONS, start_date, end_date, mpc,
    \* xirr: its two list arguments, the cleaned lists, what fsolve gave, what the
    \* call gave back
    xirr_cash_flows, xirr_dates, cash_flows_clean, dates_clean, irr_result,
    xirr_return, xpc,
    \* run_cashflow_model after aggregation: the asset list read by
    \* assign_period_type, the consolidated frame, the equity IRR
    assets_data, final_cash_flow, irr, epc,
    \* calculate_blended: its four arguments (blend), what it returned
    blend, blended, bpc

argVars    == <<cash_flows, target_dscrs, interest_rate, tenor_years>>
annualVars == <<debt_amount, year, debt_balance, interest_payments,
                principal_payments, debt_service, metrics, apc>>
solveVars  == <<capex, max_gearing, lower_bound, upper_bound, best_debt,
                best_schedule, iteration, test_debt, result, pc>>
genVars    == <<gen, schedule, row_i, balance, quarterly_interest_accumulator, gpc>>
portVars   == <<call, asset_i, all_debt_schedules, updated_capex_schedules,
                optimal_debts, raised, ppc>>
aggVars    == <<agg, cash_flow, asset_info_i, printed, cpc>>
runVars    == <<ASSETS, ASSET_COST_ASSUMPTIONS, start_date, end_date, mpc>>
xirrVars   == <<xirr_cash_flows, xirr_dates, cash_flows_clean, dates_clean, irr_result,
                xirr_return, xpc>>
irrVars    == <<assets_data, final_cash_flow, irr, epc>>
blendVars  == <<blend, blended, bpc>>
vars == <<argVars, annualVars, solveVars, genVars, portVars, aggVars, runVars, xirrVars, irrVars,
          blendVars>>

(***************************************************************************)
(* calculate_annual_debt_schedule  (debt.py:32-104)                        *)
(***************************************************************************)
\* debt.py:62   interest_payments[year] = debt_balance[year] * interest_rate
InterestPayment(bal, rate) == (bal * rate) \div 100

\* debt.py:66   target_dscrs[year] if year < len(target_dscrs) else target_dscrs[-1]
TargetDscr(targets, y) ==
    IF y < Len(targets) THEN targets[y + 1] ELSE targets[Len(targets)]

\* debt.py:69   operating_cash_flow / target_dscr if target_dscr > 0 else 0
MaxDebtService(operating_cash_flow, target_dscr) ==
    IF target_dscr > 0 THEN (operating_cash_flow * 100) \div target_dscr ELSE 0

\* mutant: principal not capped at the outstanding balance
PrincipalPaymentUncapped(max_debt_service, interest, bal) ==
    Max(0, max_debt_service - interest)

\* debt.py:72-75  min(max(0, max_debt_service - interest), debt_balance[year])
PrincipalPayment(max_debt_service, interest, bal) ==
    Min(Max(0, max_debt_service - interest), bal)

\* debt.py:47-54  the arrays as initialised
AnnualArrays(debt, tenor) ==
    [debt_balance       |-> [y \in 0..tenor |-> IF y = 0 THEN debt ELSE 0],
     interest_payments  |-> [y \in 0..(tenor - 1) |-> 0],
     principal_payments |-> [y \in 0..(tenor - 1) |-> 0],
     debt_service       |-> [y \in 0..(tenor - 1) |-> 0]]

\* debt.py:61-84  one pass of the loop body, for index y
YearStep(s, y, cfs, rate, targets) ==
    LET interest  == InterestPayment(s.debt_balance[y], rate)
        mds       == MaxDebtService(cfs[y + 1], TargetDscr(targets, y))
        principal == PrincipalPayment(mds, interest, s.debt_balance[y])
    IN [debt_balance       |-> [s.debt_balance EXCEPT ![y + 1] = s.debt_balance[y] - principal],
        interest_payments  |-> [s.interest_payments EXCEPT ![y] = interest],
        principal_payments |-> [s.principal_payments EXCEPT ![y] = principal],
        debt_service       |-> [s.debt_service EXCEPT ![y] = interest + principal]]

\* debt.py:57-59  loop condition: range(tenor_years), break when year >= len(cash_flows)
LoopContinues(y, tenor, cfs) == y < tenor /\ y < Len(cfs)

RECURSIVE AnnualLoop(_, _, _, _, _, _)
AnnualLoop(s, y, cfs, rate, tenor, targets) ==
    IF LoopContinues(y, tenor, cfs)
    THEN CHOOSE r \in {AnnualLoop(s2, y + 1, cfs, rate, tenor, targets) :
                          s2 \in {YearStep(s, y, cfs, rate, targets)}} : TRUE
    ELSE s

\* mutant: comparison inverted
FullyRepaidInverted(final_balance) == final_balance > RepaidTolerance

\* debt.py:87  fully_repaid = debt_balance[tenor_years] < 1000
FullyRepaid(final_balance) == final_balance < RepaidTolerance

\* debt.py:87-103  (avg_debt_service, dscr_values and min_dscr feed only the debug print)
Metrics(s, tenor) ==
    [fully_repaid  |-> FullyRepaid(s.debt_balance[tenor]),
     final_balance |-> s.debt_balance[tenor]]

CalculateAnnualDebtSchedule(debt, cfs, rate, tenor, targets) ==
    CHOOSE r \in
       {[kind               |-> "schedule",
         debt_balance       |-> s.debt_balance,
         interest_payments  |-> s.interest_payments,
         principal_payments |-> s.principal_payments,
         debt_service       |-> s.debt_service,
         metrics            |-> Metrics(s, tenor)] :
        s \in {AnnualLoop(AnnualArrays(debt, tenor), 0, cfs, rate, tenor, targets)}} : TRUE

(***************************************************************************)
(* Arguments: an annual cash-flow series with its targets (as built by     *)
(* iterate_debt_sizing, one target per year; a caller of                   *)
(* solve_maximum_debt may pass fewer, never none for a non-empty series).  *)
(***************************************************************************)
ArgsInit ==
    /\ cash_flows \in SeqUpTo(CashValues, MaxYears)
    /\ target_dscrs \in SeqUpTo(TargetValues, MaxYears)
    /\ Len(target_dscrs) <= Len(cash_flows)
    /\ (Len(cash_flows) > 0 => Len(target_dscrs) >= Len(cash_flows) - 1 /\ Len(target_dscrs) > 0)
    /\ interest_rate \in RateValues
    /\ tenor_years \in 0..MaxTenor

AnnualIdle ==
    /\ debt_amount = 0
    /\ year = 0
    /\ debt_balance = <<>>
    /\ interest_payments = <<>>
    /\ principal_payments = <<>>
    /\ debt_service = <<>>
    /\ metrics = None
    /\ apc = "idle"

SolveIdle ==
    /\ capex = 0
    /\ max_gearing = 0
    /\ lower_bound = 0
    /\ upper_bound = 0
    /\ best_debt = 0
    /\ best_schedule = None
    /\ iteration = 0
    /\ test_debt = 0
    /\ result = None
    /\ pc = "idle"

GenIdle ==
    /\ gen = None
    /\ schedule = <<>>
    /\ row_i = 0
    /\ balance = 0
    /\ quarterly_interest_accumulator = 0
    /\ gpc = "idle"

PortIdle ==
    /\ call = None
    /\ asset_i = 0
    /\ all_debt_schedules = <<>>
    /\ updated_capex_schedules = <<>>
    /\ optimal_debts = <<>>
    /\ raised = None
    /\ ppc = "idle"

AggIdle ==
    /\ agg = None
    /\ cash_flow = <<>>
    /\ asset_info_i = 0
    /\ printed = <<>>
    /\ cpc = "idle"

RunIdle ==
    /\ ASSETS = <<>>
    /\ ASSET_COST_ASSUMPTIONS = None
    /\ start_date = None
    /\ end_date = None
    /\ mpc = "idle"

XirrIdle ==
    /\ xirr_cash_flows = <<>>
    /\ xirr_dates = <<>>
    /\ cash_flows_clean = <<>>
    /\ dates_clean = <<>>
    /\ irr_result = None
    /\ xirr_return = None
    /\ xpc = "idle"

IrrIdle ==
    /\ assets_data = <<>>
    /\ final_cash_flow = <<>>
    /\ irr = None
    /\ epc = "idle"

BlendIdle ==
    /\ blend = None
    /\ blended = None
    /\ bpc = "idle"

(***************************************************************************)
(* SpecAnnual: one call of calculate_annual_debt_schedule, year by year.   *)
(***************************************************************************)
AnnualInit ==
    /\ ArgsInit
    /\ debt_amount \in DebtValues
    /\ year = 0
    /\ debt_balance = AnnualArrays(debt_amount, tenor_years).debt_balance
    /\ interest_payments = AnnualArrays(debt_amount, tenor_years).interest_payments
    /\ principal_payments = AnnualArrays(debt_amount, tenor_years).principal_payments
    /\ debt_service = AnnualArrays(debt_amount, tenor_years).debt_service
    /\ metrics = None
    /\ apc = "loop"
    /\ SolveIdle
    /\ GenIdle
    /\ PortIdle
    /\ AggIdle
    /\ RunIdle
    /\ XirrIdle
    /\ IrrIdle
    /\ BlendIdle

AnnualState ==
    [debt_balance |-> debt_balance, interest_payments |-> interest_payments,
     principal_payments |-> principal_payments, debt_service |-> debt_service]

AnnualYear ==
    /\ apc = "loop"
    /\ LoopContinues(year, tenor_years, cash_flows)
    /\ LET s == YearStep(AnnualState, year, cash_flows, interest_rate, target_dscrs)
       IN /\ debt_balance' = s.debt_balance
          /\ interest_payments' = s.interest_payments
          /\ principal_payments' = s.principal_payments
          /\ debt_service' = s.debt_service
    /\ year' = year + 1
    /\ UNCHANGED <<debt_amount, metrics, apc, argVars, solveVars, genVars, portVars, aggVars, runVars, xirrVars, irrVars, blendVars>>

AnnualReturn ==
    /\ apc = "loop"
    /\ ~LoopContinues(year, tenor_years, cash_flows)
    /\ metrics' = Metrics(AnnualState, tenor_years)
    /\ apc' = "done"
    /\ UNCHANGED <<debt_amount, year, debt_balance, interest_payments,
                   principal_payments, debt_service, argVars, solveVars, genVars, portVars, aggVars, runVars, xirrVars, irrVars, blendVars>>

AnnualNext == AnnualYear \/ AnnualReturn

SpecAnnual == AnnualInit /\ [][AnnualNext]_vars


(***************************************************************************)
(* solve_maximum_debt  (debt.py:106-189)                                   *)
(***************************************************************************)
\* debt.py:124  return 0, None, None, None, None, None, None, None, None
CapexZeroReturn ==
    [kind |-> "tuple",
     items |-> <<Val(0), None, None, None, None, None, None, None, None>>]

\* mutant: the gearing limit forgotten
UpperBoundUngeared(cpx, gearing) == cpx

\* debt.py:128  upper_bound = capex * max_gearing
UpperBound(cpx, gearing) == (cpx * gearing) \div 100

\* debt.py:127-133
SearchStart(cpx, gearing) ==
    [lower_bound |-> 0, upper_bound |-> UpperBound(cpx, gearing),
     best_debt |-> 0, best_schedule |-> None, iteration |-> 0, test_debt |-> 0]

\* debt.py:145  while iteration < max_iterations and (upper_bound - lower_bound) > tolerance
SearchContinues(st) ==
    st.iteration < max_iterations /\ (st.upper_bound - st.lower_bound) > tolerance

\* debt.py:146  test_debt = (lower_bound + upper_bound) / 2
MidPoint(lo, hi) == (lo + hi) \div 2

\* mutant: the two branches of the feasibility test exchanged
SearchStepSwapped(st, cfs, rate, tenor, targets) ==
    LET test == MidPoint(st.lower_bound, st.upper_bound)
    IN CHOOSE r \in
         {IF ~tested.metrics.fully_repaid
          THEN [st EXCEPT !.lower_bound = test, !.best_debt = test,
                          !.best_schedule = tested, !.test_debt = test,
                          !.iteration = st.iteration + 1]
          ELSE [st EXCEPT !.upper_bound = test, !.test_debt = test,
                          !.iteration = st.iteration + 1] :
          tested \in {CalculateAnnualDebtSchedule(test, cfs, rate, tenor, targets)}} : TRUE

\* debt.py:146-168  one pass of the loop body
SearchStep(st, cfs, rate, tenor, targets) ==
    LET test == MidPoint(st.lower_bound, st.upper_bound)
    IN CHOOSE r \in
         {IF tested.metrics.fully_repaid
          THEN [st EXCEPT !.lower_bound = test, !.best_debt = test,
                          !.best_schedule = tested, !.test_debt = test,
                          !.iteration = st.iteration + 1]
          ELSE [st EXCEPT !.upper_bound = test, !.test_debt = test,
                          !.iteration = st.iteration + 1] :
          tested \in {CalculateAnnualDebtSchedule(test, cfs, rate, tenor, targets)}} : TRUE

\* debt.py:171-189  the value returned after the loop
SearchReturn(st, cpx, cfs, rate, tenor, targets) ==
    [kind     |-> "dict",
     debt     |-> st.best_debt,
     gearing  |-> IF cpx > 0 THEN [num |-> st.best_debt, den |-> cpx]
                             ELSE [num |-> 0, den |-> 1],
     schedule |-> IF st.best_debt = 0
                  THEN CalculateAnnualDebtSchedule(0, cfs, rate, tenor, targets)
                  ELSE st.best_schedule]

RECURSIVE SearchLoop(_, _, _, _, _)
SearchLoop(st, cfs, rate, tenor, targets) ==
    IF SearchContinues(st)
    THEN CHOOSE r \in {SearchLoop(s2, cfs, rate, tenor, targets) :
                          s2 \in {SearchStep(st, cfs, rate, tenor, targets)}} : TRUE
    ELSE st

\* the whole function, as its callers use it
SolveMaximumDebt(cpx, cfs, targets, gearing, rate, tenor) ==
    IF cpx = 0
    THEN CapexZeroReturn
    ELSE CHOOSE r \in
            {SearchReturn(st, cpx, cfs, rate, tenor, targets) :
             st \in {SearchLoop(SearchStart(cpx, gearing), cfs, rate, tenor, targets)}} : TRUE

SearchState ==
    [lower_bound |-> lower_bound, upper_bound |-> upper_bound, best_debt |-> best_debt,
     best_schedule |-> best_schedule, iteration |-> iteration, test_debt |-> test_debt]

(***************************************************************************)
(* Spec: one call of solve_maximum_debt, one search iteration per step.    *)
(***************************************************************************)
Init ==
    /\ ArgsInit
    /\ capex \in CapexValues
    /\ max_gearing \in GearingValues
    /\ lower_bound = 0
    /\ upper_bound = 0
    /\ best_debt = 0
    /\ best_schedule = None
    /\ iteration = 0
    /\ test_debt = 0
    /\ result = None
    /\ pc = "entry"
    /\ AnnualIdle
    /\ GenIdle
    /\ PortIdle
    /\ AggIdle
    /\ RunIdle
    /\ XirrIdle
    /\ IrrIdle
    /\ BlendIdle

\* debt.py:122-124
SolveCapexZero ==
    /\ pc = "entry"
    /\ capex = 0
    /\ result' = CapexZeroReturn
    /\ pc' = "done"
    /\ UNCHANGED <<capex, max_gearing, lower_bound, upper_bound, best_debt,
                   best_schedule, iteration, test_debt, argVars, annualVars, genVars, portVars, aggVars, runVars, xirrVars, irrVars, blendVars>>

\* debt.py:126-144
SolveStart ==
    /\ pc = "entry"
    /\ capex # 0
    /\ LET st == SearchStart(capex, max_gearing)
       IN /\ lower_bound' = st.lower_bound
          /\ upper_bound' = st.upper_bound
          /\ best_debt' = st.best_debt
          /\ best_schedule' = st.best_schedule
          /\ iteration' = st.iteration
          /\ test_debt' = st.test_debt
    /\ pc' = "loop"
    /\ UNCHANGED <<capex, max_gearing, result, argVars, annualVars, genVars, portVars, aggVars, runVars, xirrVars, irrVars, blendVars>>

\* debt.py:145-168
SolveIterate ==
    /\ pc = "loop"
    /\ SearchContinues(SearchState)
    /\ LET st == SearchStep(SearchState, cash_flows, interest_rate, tenor_years, target_dscrs)
       IN /\ lower_bound' = st.lower_bound
          /\ upper_bound' = st.upper_bound
          /\ best_debt' = st.best_debt
          /\ best_schedule' = st.best_schedule
          /\ iteration' = st.iteration
          /\ test_debt' = st.test_debt
    /\ UNCHANGED <<capex, max_gearing, result, pc, argVars, annualVars, genVars, portVars, aggVars, runVars, xirrVars, irrVars, blendVars>>

\* debt.py:170-189
SolveReturn ==
    /\ pc = "loop"
    /\ ~SearchContinues(SearchState)
    /\ result' = SearchReturn(SearchState, capex, cash_flows, interest_rate,
                              tenor_years, target_dscrs)
    /\ pc' = "done"
    /\ UNCHANGED <<capex, max_gearing, lower_bound, upper_bound, best_debt,
                   best_schedule, iteration, test_debt, argVars, annualVars, genVars, portVars, aggVars, runVars, xirrVars, irrVars, blendVars>>

Next == SolveCapexZero \/ SolveStart \/ SolveIterate \/ SolveReturn

Spec == Init /\ [][Next]_vars


(***************************************************************************)
(* Properties of the sizing simulation and of the search.                  *)
(***************************************************************************)
Clamp(x, lo, hi) == IF x < lo THEN lo ELSE IF x > hi THEN hi ELSE x

Feasible(debt) ==
    CalculateAnnualDebtSchedule(debt, cash_flows, interest_rate, tenor_years,
                                target_dscrs).metrics.fully_repaid

\* C3: in the sizing simulation every processed period has interest = opening
\* balance x rate, allowable debt service = cash_flow / target_dscr (zero when the
\* target is <= 0), principal = clamp(allowable - interest, 0, balance) and next
\* balance = balance - principal; and debt 1,000,000, one period, cash flow
\* 1,200,000, rate 5%, target 1.0 gives interest 50,000, principal 1,000,000,
\* ending balance 0 and fully_repaid.
C3_SizingPeriodFormula ==
    /\ apc \in {"loop", "done"} =>
         \A y \in 0..(year - 1) :
            LET target    == TargetDscr(target_dscrs, y)
                allowable == IF target <= 0 THEN 0
                             ELSE (cash_flows[y + 1] * 100) \div target
            IN /\ interest_payments[y] = (debt_balance[y] * interest_rate) \div 100
               /\ principal_payments[y] =
                     Clamp(allowable - interest_payments[y], 0, debt_balance[y])
               /\ debt_balance[y + 1] = debt_balance[y] - principal_payments[y]
    /\ ( /\ apc = "done"
         /\ debt_amount = 1000000 /\ tenor_years = 1 /\ cash_flows = <<1200000>>
         /\ interest_rate = 5 /\ target_dscrs = <<100>> )
       => /\ interest_payments[0] = 50000
          /\ principal_payments[0] = 1000000
          /\ debt_balance[1] = 0
          /\ metrics.fully_repaid

C3_Witness ==
    /\ apc = "done"
    /\ debt_amount = 1000000 /\ tenor_years = 1 /\ cash_flows = <<1200000>>
    /\ interest_rate = 5 /\ target_dscrs = <<100>>
    /\ year = 1
    /\ metrics.final_balance = 0

\* the debts a finished simulation of debt D is compared with
SmallerDebts(D) ==
    {d \in DebtValues \cup {D - 1, D \div 2, D - RepaidTolerance} : 0 <= d /\ d < D}

\* C5: feasibility is monotone in the debt amount: when the simulation of debt D
\* reports fully_repaid, the simulation of every smaller debt D' >= 0 with the same
\* cash flows, targets, rate (>= 0) and tenor reports fully_repaid too.
C5_FeasibilityMonotone ==
    (apc = "done" /\ metrics.fully_repaid)
       => \A d \in SmallerDebts(debt_amount) : Feasible(d)

C5_Witness ==
    /\ apc = "done"
    /\ metrics.fully_repaid
    /\ debt_amount >= RepaidTolerance
    /\ year = tenor_years
    /\ \E d \in DebtValues : d > debt_amount /\ ~Feasible(d)

\* C4 as stated: for capex > 0 the returned debt is feasible and the returned debt
\* plus one tolerance unit is infeasible.
C4_AsStated ==
    (pc = "done" /\ capex > 0)
       => /\ Feasible(result.debt)
          /\ ~Feasible(result.debt + tolerance)

\* C4 as stated, for series that cover the whole tenor and a positive gearing limit
\* (the refutation does not rest on a short or empty series).
C4_AsStatedFullSeries ==
    (pc = "done" /\ capex > 0 /\ max_gearing > 0 /\ Len(cash_flows) >= tenor_years
        /\ tenor_years > 0)
       => /\ Feasible(result.debt)
          /\ ~Feasible(result.debt + tolerance)

\* C4 amended: for capex > 0 the returned debt is feasible, and the returned debt
\* plus one tolerance unit is infeasible unless it reaches the top of the search
\* range, capex x max_gearing (the search was stopped by the gearing limit, not by
\* an infeasible candidate).
C4_BoundaryOrGearingLimit ==
    (pc = "done" /\ capex > 0)
       => /\ Feasible(result.debt)
          /\ \/ ~Feasible(result.debt + tolerance)
             \/ result.debt + tolerance >= UpperBound(capex, max_gearing)

C4_Witness ==
    /\ pc = "done" /\ capex > 0
    /\ result.debt > 0
    /\ iteration >= 3
    /\ result.debt + tolerance < UpperBound(capex, max_gearing)
    /\ ~Feasible(result.debt + tolerance)

\* C6: for capex > 0 and 0 <= max_gearing <= 1 every candidate tested and the debt
\* returned lie in [0, capex x max_gearing], and the returned gearing (debt / capex)
\* does not exceed max_gearing.
C6_WithinGearing ==
    /\ (pc = "loop" /\ iteration > 0)
          => 0 <= test_debt /\ test_debt * 100 <= capex * max_gearing
    /\ (pc = "done" /\ capex > 0)
          => /\ 0 <= result.debt /\ result.debt * 100 <= capex * max_gearing
             /\ result.gearing.num * 100 <= max_gearing * result.gearing.den

C6_Witness ==
    /\ pc = "done" /\ capex > 0 /\ max_gearing = 70
    /\ result.debt > 0
    /\ (result.debt + tolerance) * 100 >= capex * max_gearing

AllZero(f) == \A i \in DOMAIN f : f[i] = 0

\* C7: solve_maximum_debt with capex = 0 returns a sizing result of the shape read
\* for capex > 0 (debt, gearing, schedule), with debt 0 and an all-zero schedule.
C7_CapexZeroResult ==
    (pc = "done" /\ capex = 0)
       => /\ result.kind = "dict"
          /\ result.debt = 0
          /\ AllZero(result.schedule.debt_balance)
          /\ AllZero(result.schedule.principal_payments)
          /\ AllZero(result.schedule.interest_payments)

\* C9 (second case): for capex > 0 and an empty cash_flows list passed to
\* solve_maximum_debt the sized debt is 0.
C9_EmptySeriesZeroDebt ==
    (pc = "done" /\ capex > 0 /\ cash_flows = <<>>) => result.debt = 0


(***************************************************************************)
(* Dates.  A date is 100 * (months since January of year 0) + day of       *)
(* month; days are at most 28, so relativedelta never clips a day.         *)
(***************************************************************************)
DateOf(m, d)        == 100 * m + d
MonthIndex(date)    == date \div 100
CalendarMonth(date) == (MonthIndex(date) % 12) + 1
CalendarYear(date)  == MonthIndex(date) \div 12
AddMonths(date, k)  == date + 100 * k
AddYears(date, k)   == date + 1200 * k

\* pd.date_range(start, end, freq='MS'): the first day of n consecutive months
DateRange(first_month, n) == [i \in 1..n |-> DateOf(first_month + i - 1, 1)]

(***************************************************************************)
(* generate_debt_schedule  (debt.py:319-437)                               *)
(***************************************************************************)
\* debt.py:327-335, 339-347  the DataFrame as created: one all-zero row per date
EmptySchedule(date_range) ==
    [i \in 1..Len(date_range) |->
        [date |-> date_range[i], beginning_balance |-> 0, drawdowns |-> 0,
         interest |-> 0, principal |-> 0, ending_balance |-> 0]]

\* debt.py:350  asset_capex_df['capex'].sum()
RECURSIVE SumCapex(_, _)
SumCapex(rows, k) == IF k = 0 THEN 0 ELSE rows[k].capex + SumCapex(rows, k - 1)

\* mutant: the row's capex is drawn whole, whatever the gearing
DrawdownAmountUngeared(row_capex, debt, total_capex, current_drawn) ==
    Min(row_capex, debt - current_drawn)

\* debt.py:352, 359-360  min(row['capex'] * actual_gearing, debt_amount - current_drawn)
DrawdownAmount(row_capex, debt, total_capex, current_drawn) ==
    Min((row_capex * debt) \div total_capex, debt - current_drawn)

\* debt.py:356-363  the loop over the capex rows, from row k on
RECURSIVE DrawdownLoop(_, _, _, _, _, _)
DrawdownLoop(sched, rows, k, current_drawn, debt, total_capex) ==
    IF k > Len(rows)
    THEN sched
    ELSE IF (\E j \in 1..Len(sched) : sched[j].date = rows[k].date) /\ current_drawn < debt
         THEN CHOOSE r \in
                {DrawdownLoop(
                    [j \in 1..Len(sched) |->
                        IF sched[j].date = rows[k].date
                        THEN [sched[j] EXCEPT !.drawdowns = drawdown_amount]
                        ELSE sched[j]],
                    rows, k + 1, current_drawn + drawdown_amount, debt, total_capex) :
                 drawdown_amount \in
                    {DrawdownAmount(rows[k].capex, debt, total_capex, current_drawn)}} : TRUE
         ELSE DrawdownLoop(sched, rows, k + 1, current_drawn, debt, total_capex)

\* debt.py:338-363  the schedule with its drawdowns populated
ScheduleWithDrawdowns(g) ==
    LET total_capex == SumCapex(g.asset_capex, Len(g.asset_capex))
    IN IF total_capex > 0
       THEN DrawdownLoop(EmptySchedule(g.date_range), g.asset_capex, 1, 0,
                         g.debt_amount, total_capex)
       ELSE EmptySchedule(g.date_range)

\* debt.py:366-375  membership in payment_dates: debt_service_start_date plus a whole
\* number of periods (1 month, else 3 months), not after cod + assetLife years
IsPaymentDate(date, g) ==
    LET step == IF g.repayment_frequency = "monthly" THEN 1 ELSE 3
    IN /\ date >= g.debt_service_start_date
       /\ date <= AddYears(g.cod, g.assetLife)
       /\ (date - g.debt_service_start_date) % (100 * step) = 0

\* debt.py:393  balance * period_rate   (period_rate = pct / 100 / per)
PeriodInterest(bal, period_rate) == (bal * period_rate.pct) \div (100 * period_rate.per)

\* debt.py:417  balance * (annual_interest_rate / 12)
MonthlyAccrual(bal, annual_interest_rate) == (bal * annual_interest_rate) \div 1200

\* debt.py:398  blended_dscr.get(current_date.year, 1.4)
BlendedDscrGet(blended_dscr, yr) ==
    IF yr \in DOMAIN blended_dscr THEN blended_dscr[yr] ELSE 140

\* debt.py:397-402  principal from the month's CFADS and the blended target
CfadsPrincipal(available_cfads, target_dscr, monthly_interest, bal) ==
    LET max_debt_service ==
            IF target_dscr > 0 THEN (available_cfads * 100) \div target_dscr ELSE 0
    IN Min(Max(0, max_debt_service - monthly_interest), bal)

\* debt.py:405-409  fallback: simple amortisation
SimplePrincipal(debt, total_payments, bal) ==
    IF total_payments > 0 THEN Min(debt \div total_payments, bal) ELSE 0

\* mutant: the quarterly principal not capped at the balance
QuarterlyPrincipalUncapped(debt, total_payments, bal) ==
    IF total_payments > 0 THEN (debt * 3) \div total_payments ELSE 0

\* debt.py:424-428  (debt_amount / total_payments) * 3, capped at the balance
QuarterlyPrincipal(debt, total_payments, bal) ==
    IF total_payments > 0 THEN Min((debt * 3) \div total_payments, bal) ELSE 0

\* mutant: the accumulator is not reset after a quarterly payment
MonthStepNoReset(st, i, g) ==
    LET current_date == st.schedule[i].date
        bal          == st.balance + st.schedule[i].drawdowns
        servicing    == current_date >= g.debt_service_start_date /\ bal > 0
        monthly      == g.repayment_frequency = "monthly"
        pays         == servicing /\ IsPaymentDate(current_date, g)
        accrued      == IF servicing /\ ~monthly
                        THEN st.quarterly_interest_accumulator
                                + MonthlyAccrual(bal, g.annual_interest_rate)
                        ELSE st.quarterly_interest_accumulator
        monthly_interest == PeriodInterest(bal, g.period_rate)
        interest     == IF ~pays THEN 0
                        ELSE IF monthly THEN monthly_interest ELSE accrued
        principal    == IF ~pays THEN 0
                        ELSE IF monthly
                             THEN IF current_date \in DOMAIN g.asset_cash_flow
                                  THEN CfadsPrincipal(g.asset_cash_flow[current_date],
                                          BlendedDscrGet(g.blended_dscr, CalendarYear(current_date)),
                                          monthly_interest, bal)
                                  ELSE SimplePrincipal(g.debt_amount, g.total_payments, bal)
                             ELSE QuarterlyPrincipal(g.debt_amount, g.total_payments, bal)
    IN [schedule |-> [st.schedule EXCEPT ![i] =
                        [@ EXCEPT !.beginning_balance = st.balance,
                                  !.interest = interest,
                                  !.principal = principal,
                                  !.ending_balance = bal - principal]],
        balance  |-> bal - principal,
        quarterly_interest_accumulator |-> accrued]

\* debt.py:387-435  one pass of the loop body, for row i.
\* st = [schedule, balance, quarterly_interest_accumulator]
MonthStep(st, i, g) ==
    LET current_date == st.schedule[i].date
        bal          == st.balance + st.schedule[i].drawdowns
        servicing    == current_date >= g.debt_service_start_date /\ bal > 0
        monthly      == g.repayment_frequency = "monthly"
        pays         == servicing /\ IsPaymentDate(current_date, g)
        accrued      == IF servicing /\ ~monthly
                        THEN st.quarterly_interest_accumulator
                                + MonthlyAccrual(bal, g.annual_interest_rate)
                        ELSE st.quarterly_interest_accumulator
        monthly_interest == PeriodInterest(bal, g.period_rate)
        interest     == IF ~pays THEN 0
                        ELSE IF monthly THEN monthly_interest ELSE accrued
        principal    == IF ~pays THEN 0
                        ELSE IF monthly
                             THEN IF current_date \in DOMAIN g.asset_cash_flow
                                  THEN CfadsPrincipal(g.asset_cash_flow[current_date],
                                          BlendedDscrGet(g.blended_dscr, CalendarYear(current_date)),
                                          monthly_interest, bal)
                                  ELSE SimplePrincipal(g.debt_amount, g.total_payments, bal)
                             ELSE QuarterlyPrincipal(g.debt_amount, g.total_payments, bal)
    IN [schedule |-> [st.schedule EXCEPT ![i] =
                        [@ EXCEPT !.beginning_balance = st.balance,
                                  !.interest = interest,
                                  !.principal = principal,
                                  !.ending_balance = bal - principal]],
        balance  |-> bal - principal,
        quarterly_interest_accumulator |-> IF pays /\ ~monthly THEN 0 ELSE accrued]

RECURSIVE MonthLoop(_, _, _)
MonthLoop(st, i, g) ==
    IF i > Len(st.schedule)
    THEN st
    ELSE CHOOSE r \in {MonthLoop(s2, i + 1, g) : s2 \in {MonthStep(st, i, g)}} : TRUE

\* the whole function
GenerateDebtSchedule(g) ==
    IF g.debt_amount = 0
    THEN EmptySchedule(g.date_range)
    ELSE MonthLoop([schedule |-> ScheduleWithDrawdowns(g), balance |-> 0,
                    quarterly_interest_accumulator |-> 0], 1, g).schedule


(***************************************************************************)
(* What the callers of generate_debt_schedule pass to it.                  *)
(***************************************************************************)
\* debt.py:254-267 (and 510-523)  for repayment_frequency monthly or quarterly
DebtServiceStart(cod, grace_period, repayment_frequency) ==
    IF grace_period = "full_period"
    THEN IF repayment_frequency = "monthly"
         THEN AddMonths(cod, 1)
         ELSE IF CalendarMonth(cod) \in {1, 2, 3}
              THEN DateOf(12 * CalendarYear(cod) + 3, 1)
              ELSE IF CalendarMonth(cod) \in {4, 5, 6}
                   THEN DateOf(12 * CalendarYear(cod) + 6, 1)
                   ELSE IF CalendarMonth(cod) \in {7, 8, 9}
                        THEN DateOf(12 * CalendarYear(cod) + 9, 1)
                        ELSE DateOf(12 * (CalendarYear(cod) + 1), 1)
    ELSE cod

\* debt.py:270-275 (and 525-530)  anything but 'monthly' is treated as quarterly
PeriodRate(rate, repayment_frequency) ==
    IF repayment_frequency = "monthly" THEN [pct |-> rate, per |-> 12]
                                       ELSE [pct |-> rate, per |-> 4]

TotalPayments(tenor, repayment_frequency) ==
    IF repayment_frequency = "monthly" THEN tenor * 12 ELSE tenor * 4

\* expenses.py:86-116  the capex rows of one asset: one row per date of the range,
\* total_capex / construction_months on the dates in [construction_start, cod)
\* ("straight"); "front" puts the whole amount on the first construction date
CapexRows(date_range, construction_start, cod, total_capex, profile) ==
    LET construction_months == MonthIndex(cod) - MonthIndex(construction_start)
    IN [i \in 1..Len(date_range) |->
          [date  |-> date_range[i],
           capex |-> IF construction_start <= date_range[i] /\ date_range[i] < cod
                     THEN IF profile = "straight"
                          THEN IF construction_months > 0
                               THEN total_capex \div construction_months ELSE 0
                          ELSE IF date_range[i] = construction_start
                               THEN total_capex ELSE 0
                     ELSE 0]]

\* debt.py:480-486  the asset's cash-flow rows dated cod or later, indexed by date
\* (shape <<a, b>>: cfads a in even months, b in odd months); no rows: empty index
AssetCashFlow(date_range, cod, shape) ==
    IF shape = <<>>
    THEN [d \in {} |-> 0]
    ELSE [d \in {date_range[i] : i \in {j \in 1..Len(date_range) : date_range[j] >= cod}} |->
             IF MonthIndex(d) % 2 = 0 THEN shape[1] ELSE shape[2]]

\* debt.py:315  pd.Series(annual_target_dscrs, index=annual_data['year']), or
\* debt.py:286, 534  pd.Series([x]), which has no year among its keys
BlendedDscr(date_range, shape) ==
    IF shape = <<>>
    THEN [y \in {} |-> 0]
    ELSE [y \in {CalendarYear(date_range[i]) : i \in 1..Len(date_range)} |->
             IF y = 0 THEN shape[1] ELSE shape[2]]

GenArgs(debt, total_capex, profile, cod, grace, freq, rate, tenor, life, cf_shape, dscr_shape) ==
    LET date_range == DateRange(0, MaxMonths)
    IN [debt_amount             |-> debt,
        asset_capex             |-> CapexRows(date_range, DateOf(0, 1), cod, total_capex, profile),
        asset_cash_flow         |-> AssetCashFlow(date_range, cod, cf_shape),
        blended_dscr            |-> BlendedDscr(date_range, dscr_shape),
        debt_service_start_date |-> DebtServiceStart(cod, grace, freq),
        period_rate             |-> PeriodRate(rate, freq),
        total_payments          |-> TotalPayments(tenor, freq),
        repayment_frequency     |-> freq,
        date_range              |-> date_range,
        cod                     |-> cod,
        annual_interest_rate    |-> rate,
        assetLife               |-> life]

(***************************************************************************)
(* SpecSchedule: one call of generate_debt_schedule, one row per step.     *)
(* The quarterly branch reads neither the cash flows nor the blended DSCR, *)
(* and the monthly branch reads the blended DSCR only when there are cash  *)
(* flow rows, so one shape of each is enough there.                        *)
(***************************************************************************)
GenInit ==
    /\ \E debt \in GenDebtValues, total_capex \in TotalCapexValues,
          profile \in CapexProfiles,
          cm \in CodMonths, cd \in CodDays,
          grace \in {"none", "full_period"}, freq \in {"monthly", "quarterly"},
          rate \in GenRateValues, tenor \in 0..MaxTenor, life \in LifeValues,
          cf_shape \in CfadsShapes \cup {<<>>}, dscr_shape \in DscrShapes \cup {<<>>} :
            /\ (total_capex = 0 => profile = "straight")
            /\ (freq = "quarterly" => cf_shape = <<>> /\ dscr_shape = <<>>)
            /\ (cf_shape = <<>> => dscr_shape = <<>>)
            /\ gen = GenArgs(debt, total_capex, profile, DateOf(cm, cd), grace, freq,
                             rate, tenor, life, cf_shape, dscr_shape)
    /\ schedule = <<>>
    /\ row_i = 0
    /\ balance = 0
    /\ quarterly_interest_accumulator = 0
    /\ gpc = "entry"
    /\ cash_flows = <<>> /\ target_dscrs = <<>> /\ interest_rate = 0 /\ tenor_years = 0
    /\ AnnualIdle
    /\ SolveIdle
    /\ PortIdle
    /\ AggIdle
    /\ RunIdle
    /\ XirrIdle
    /\ IrrIdle
    /\ BlendIdle

\* debt.py:325-336
GenZeroDebt ==
    /\ gpc = "entry"
    /\ gen.debt_amount = 0
    /\ schedule' = EmptySchedule(gen.date_range)
    /\ gpc' = "done"
    /\ UNCHANGED <<gen, row_i, balance, quarterly_interest_accumulator,
                   argVars, annualVars, solveVars, portVars, aggVars, runVars, xirrVars, irrVars, blendVars>>

\* debt.py:338-384
GenPrepare ==
    /\ gpc = "entry"
    /\ gen.debt_amount # 0
    /\ schedule' = ScheduleWithDrawdowns(gen)
    /\ balance' = 0
    /\ quarterly_interest_accumulator' = 0
    /\ row_i' = 1
    /\ gpc' = "loop"
    /\ UNCHANGED <<gen, argVars, annualVars, solveVars, portVars, aggVars, runVars, xirrVars, irrVars, blendVars>>

\* debt.py:386-435
GenMonth ==
    /\ gpc = "loop"
    /\ row_i <= Len(schedule)
    /\ LET st == MonthStep([schedule |-> schedule, balance |-> balance,
                            quarterly_interest_accumulator |-> quarterly_interest_accumulator],
                           row_i, gen)
       IN /\ schedule' = st.schedule
          /\ balance' = st.balance
          /\ quarterly_interest_accumulator' = st.quarterly_interest_accumulator
    /\ row_i' = row_i + 1
    /\ UNCHANGED <<gen, gpc, argVars, annualVars, solveVars, portVars, aggVars, runVars, xirrVars, irrVars, blendVars>>

\* debt.py:437
GenReturn ==
    /\ gpc = "loop"
    /\ row_i > Len(schedule)
    /\ gpc' = "done"
    /\ UNCHANGED <<gen, schedule, row_i, balance, quarterly_interest_accumulator,
                   argVars, annualVars, solveVars, portVars, aggVars, runVars, xirrVars, irrVars, blendVars>>

GenNext == GenZeroDebt \/ GenPrepare \/ GenMonth \/ GenReturn

SpecSchedule == GenInit /\ [][GenNext]_vars

\* rows of the schedule that the loop has filled
FilledRows == IF gpc = "done" THEN 1..Len(schedule)
              ELSE IF gpc = "loop" THEN 1..(row_i - 1) ELSE {}

\* C1: every row of the schedule produced by generate_debt_schedule has
\* ending_balance = beginning_balance + drawdowns - principal,
\* 0 <= principal <= beginning_balance + drawdowns, and ending_balance >= 0.
C1_AmortisationInvariant ==
    \A i \in FilledRows :
       LET r == schedule[i]
       IN /\ r.ending_balance = r.beginning_balance + r.drawdowns - r.principal
          /\ 0 <= r.principal
          /\ r.principal <= r.beginning_balance + r.drawdowns
          /\ r.ending_balance >= 0

\* a finished schedule that drew debt, repaid principal in several rows and was
\* repaid in full by a payment capped at the balance
C1_Witness ==
    /\ gpc = "done"
    /\ \E i \in 1..Len(schedule) : schedule[i].drawdowns > 0
    /\ \E i, j \in 1..Len(schedule) :
          /\ i < j
          /\ schedule[i].principal > 0
          /\ schedule[j].principal > 0
          /\ schedule[j].principal < schedule[i].principal
          /\ schedule[j].ending_balance = 0


(***************************************************************************)
(* calculate_blended_dscr  (debt.py:9-30)                                  *)
(***************************************************************************)
CalculateBlendedDscrSwapped(contracted_revenue, merchant_revenue, target_dscr_contract, target_dscr_merchant) ==
    LET total_revenue == contracted_revenue + merchant_revenue
    IN IF total_revenue = 0
       THEN target_dscr_merchant
       ELSE (merchant_revenue * target_dscr_contract
                + contracted_revenue * target_dscr_merchant) \div total_revenue

CalculateBlendedDscr(contracted_revenue, merchant_revenue, target_dscr_contract, target_dscr_merchant) ==
    LET total_revenue == contracted_revenue + merchant_revenue
    IN IF total_revenue = 0
       THEN target_dscr_merchant
       ELSE (contracted_revenue * target_dscr_contract
                + merchant_revenue * target_dscr_merchant) \div total_revenue

(***************************************************************************)
(* prepare_annual_cash_flows  (debt.py:191-226)                            *)
(* rows: the asset's rows of cash_flow_df, by date.  revenue_df and        *)
(* opex_df are two column selections of that one frame (debt.py:278-280), *)
(* so their inner merge on (asset_id, date) has exactly these rows.        *)
(***************************************************************************)
SetMin(S) == CHOOSE x \in S : \A y \in S : x <= y

RECURSIVE SumField(_, _, _)
SumField(rows, dates, field) ==
    IF dates = {} THEN 0
    ELSE LET d == CHOOSE x \in dates : TRUE
         IN rows[d][field] + SumField(rows, dates \ {d}, field)

PrepareAnnualCashFlows(rows) ==
    IF DOMAIN rows = {}
    THEN \* debt.py:207-208  return [], []   (a tuple of two lists, not a DataFrame)
         [kind |-> "tuple_of_lists"]
    ELSE \* debt.py:211-226  one row per calendar year, in year order
         LET years == {CalendarYear(d) : d \in DOMAIN rows}
             first == SetMin(years)
             of(y) == {d \in DOMAIN rows : CalendarYear(d) = y}
         IN [kind |-> "frame",
             rows |-> [k \in 1..Cardinality(years) |->
                         [year       |-> first + k - 1,
                          cfads      |-> SumField(rows, of(first + k - 1), "revenue")
                                           - SumField(rows, of(first + k - 1), "opex"),
                          contracted |-> SumField(rows, of(first + k - 1), "contracted"),
                          merchant   |-> SumField(rows, of(first + k - 1), "merchant")]]]

(***************************************************************************)
(* iterate_debt_sizing  (debt.py:228-317)                                  *)
(* c: the arguments of calculate_debt_schedule.  The result is the 9-tuple *)
(* returned, or the exception raised.                                      *)
(***************************************************************************)
\* debt.py:459  debt_assumptions.get(asset_name, {});  238  .get('capex', 0)
HasEntry(c, asset) == asset.name \in DOMAIN c.debt_assumptions
AssumedCapex(c, asset) ==
    IF HasEntry(c, asset) THEN c.debt_assumptions[asset.name].capex ELSE 0

Raise(exceptions) == [kind |-> "raise", exceptions |-> exceptions]

KnownFrequency(f) == f \in {"monthly", "quarterly"}

IterateDebtSizing(asset, c) ==
    LET capex_a == AssumedCapex(c, asset)
        e       == c.debt_assumptions[asset.name]
        cod     == asset.assetStartDate
        freq    == c.repayment_frequency
        \* debt.py:254-267 leaves debt_service_start_date unassigned when the grace
        \* period is 'full_period' and the frequency is neither monthly nor quarterly
        start_bound == ~(c.grace_period = "full_period" /\ ~KnownFrequency(freq))
        annual_data == PrepareAnnualCashFlows(c.cash_flow_df[asset.id])
    IN IF capex_a = 0
       THEN \* debt.py:250-251
            [kind |-> "tuple",
             items |-> <<Val(0), None, None, None, None, None, None, None, None>>]
       ELSE IF annual_data.kind = "tuple_of_lists"
            THEN \* debt.py:284  annual_data.empty on a tuple
                 Raise({"AttributeError"})
            ELSE IF ~start_bound
                 THEN \* debt.py:287, 317  debt_service_start_date is read
                      Raise({"UnboundLocalError"})
                 ELSE
       LET years == annual_data.rows
           annual_cash_flows   == [k \in 1..Len(years) |-> years[k].cfads]
           annual_target_dscrs == [k \in 1..Len(years) |->
                                     CalculateBlendedDscr(years[k].contracted, years[k].merchant,
                                                          e.targetDSCRContract, e.targetDSCRMerchant)]
           optimal_debt == SolveMaximumDebt(capex_a, annual_cash_flows, annual_target_dscrs,
                                 e.maxGearing, e.interestRate, e.tenorYears).debt
       IN IF Len(years) = 0
          THEN \* debt.py:284-287  (an empty frame)
               [kind |-> "tuple",
                items |-> <<Val(0), Val(DebtServiceStart(cod, c.grace_period, freq)),
                            Val(PeriodRate(e.interestRate, freq)),
                            Val(TotalPayments(e.tenorYears, freq)),
                            Val([y \in {} |-> 0]), Val("sculpting"),
                            Val(c.date_range), Val(cod), Val(e.interestRate)>>]
          ELSE \* debt.py:289-317
               [kind |-> "tuple",
                items |-> <<Val(optimal_debt),
                            Val(DebtServiceStart(cod, c.grace_period, freq)),
                            Val(PeriodRate(e.interestRate, freq)),
                            Val(TotalPayments(e.tenorYears, freq)),
                            Val([y \in {years[k].year : k \in 1..Len(years)} |->
                                   annual_target_dscrs[y - years[1].year + 1]]),
                            Val("sculpting"),
                            Val(c.date_range), Val(cod), Val(e.interestRate)>>]


(***************************************************************************)
(* calculate_debt_schedule  (debt.py:439-597)                              *)
(***************************************************************************)
\* pd.DataFrame(columns=[...]): a frame with no rows
EmptyFrame == <<>>

\* debt.py:480-486, 538-544  the asset's rows dated cod or later, indexed by date
CashFlowFrom(rows, cod) ==
    [d \in {x \in DOMAIN rows : x >= cod} |-> rows[d].revenue - rows[d].opex]

\* debt.py:463-492  the DSCR method for one asset
DscrOutcomeOf(sizing_result, asset, c) ==
       IF sizing_result.kind = "raise"
       THEN sizing_result
       ELSE IF IsNone(sizing_result.items[1])
            THEN \* debt.py:470-472
                 [kind |-> "ok", optimal_debt |-> 0, debt_schedule |-> EmptyFrame]
            ELSE IF IsNone(sizing_result.items[8])
                 THEN \* debt.py:482  cash_flow_df['date'] >= cod with cod None raises
                      \* TypeError in pandas versions that refuse the comparison; in
                      \* the others the call on line 488 builds, on line 327, a
                      \* DataFrame from scalars only (date_range is None): ValueError
                      Raise({"TypeError", "ValueError"})
                 ELSE
       LET it == sizing_result.items
           g  == [debt_amount             |-> it[1].v,
                  asset_capex             |-> c.capex_schedule[asset.id],
                  asset_cash_flow         |-> CashFlowFrom(c.cash_flow_df[asset.id], it[8].v),
                  blended_dscr            |-> it[5].v,
                  debt_service_start_date |-> it[2].v,
                  period_rate             |-> it[3].v,
                  total_payments          |-> it[4].v,
                  repayment_frequency     |-> c.repayment_frequency,
                  date_range              |-> it[7].v,
                  cod                     |-> it[8].v,
                  annual_interest_rate    |-> it[9].v,
                  assetLife               |-> asset.assetLife]
       IN [kind |-> "ok", optimal_debt |-> it[1].v,
           debt_schedule |-> GenerateDebtSchedule(g)]

DscrOutcome(asset, c) ==
    CHOOSE r \in {DscrOutcomeOf(sizing_result, asset, c) :
                    sizing_result \in {IterateDebtSizing(asset, c)}} : TRUE

\* debt.py:494-553  the annuity method for one asset
AnnuityOutcome(asset, c) ==
    LET capex_a == AssumedCapex(c, asset)
        e       == c.debt_assumptions[asset.name]
        cod     == asset.assetStartDate
        freq    == c.repayment_frequency
        optimal_debt == IF capex_a = 0 THEN 0 ELSE (capex_a * e.maxGearing) \div 100
        \* debt.py:510-523  here anything but 'quarterly' takes the monthly start
        start   == IF c.grace_period = "full_period"
                   THEN IF freq = "quarterly"
                        THEN DebtServiceStart(cod, "full_period", "quarterly")
                        ELSE AddMonths(cod, 1)
                   ELSE cod
    IN IF optimal_debt > 0
       THEN [kind |-> "ok", optimal_debt |-> optimal_debt,
             debt_schedule |-> GenerateDebtSchedule(
                  [debt_amount             |-> optimal_debt,
                   asset_capex             |-> c.capex_schedule[asset.id],
                   asset_cash_flow         |-> CashFlowFrom(c.cash_flow_df[asset.id], cod),
                   blended_dscr            |-> [y \in {} |-> 0],
                   debt_service_start_date |-> start,
                   period_rate             |-> PeriodRate(e.interestRate, freq),
                   total_payments          |-> TotalPayments(e.tenorYears, freq),
                   repayment_frequency     |-> freq,
                   date_range              |-> c.date_range,
                   cod                     |-> cod,
                   annual_interest_rate    |-> e.interestRate,
                   assetLife               |-> asset.assetLife])]
       ELSE [kind |-> "ok", optimal_debt |-> 0, debt_schedule |-> EmptyFrame]

\* debt.py:463-558  sizing and schedule of one asset, by method
AssetOutcome(asset, c) ==
    IF c.debt_sizing_method = "dscr" THEN DscrOutcome(asset, c)
    ELSE IF c.debt_sizing_method = "annuity" THEN AnnuityOutcome(asset, c)
    ELSE \* debt.py:555-558  "Unknown method"
         [kind |-> "ok", optimal_debt |-> 0, debt_schedule |-> EmptyFrame]

\* mutant: the split uses the assumed maximum gearing, not the sized debt
SplitCapexAtMaxGearing(asset, c, optimal_debt) ==
    LET rows    == c.capex_schedule[asset.id]
        gearing == IF HasEntry(c, asset) THEN c.debt_assumptions[asset.name].maxGearing
                   ELSE 70
    IN [k \in 1..Len(rows) |->
          [asset_id     |-> asset.id,
           date         |-> rows[k].date,
           capex        |-> rows[k].capex,
           debt_capex   |-> IF optimal_debt > 0
                            THEN (rows[k].capex * gearing) \div 100 ELSE 0,
           equity_capex |-> IF optimal_debt > 0
                            THEN (rows[k].capex * (100 - gearing)) \div 100
                            ELSE rows[k].capex]]

\* debt.py:560-572  the asset's capex rows with the debt / equity split
SplitCapex(asset, c, optimal_debt) ==
    LET rows        == c.capex_schedule[asset.id]
        total_capex == SumCapex(rows, Len(rows))
    IN [k \in 1..Len(rows) |->
          [asset_id     |-> asset.id,
           date         |-> rows[k].date,
           capex        |-> rows[k].capex,
           debt_capex   |-> IF optimal_debt > 0
                            THEN (rows[k].capex * optimal_debt) \div total_capex ELSE 0,
           equity_capex |-> IF optimal_debt > 0
                            THEN (rows[k].capex * (total_capex - optimal_debt)) \div total_capex
                            ELSE rows[k].capex]]

TotalCapexOf(asset, c) == SumCapex(c.capex_schedule[asset.id], Len(c.capex_schedule[asset.id]))

(***************************************************************************)
(* SpecPortfolio: one call of calculate_debt_schedule, one asset per step. *)
(***************************************************************************)
AssetName(i) == IF i = 1 THEN "A1" ELSE IF i = 2 THEN "A2" ELSE "A3"
\* operating start: asset 1 on the first of March, the others mid-April
AssetCod(i)  == IF i = 1 THEN DateOf(2, 1) ELSE DateOf(3, 15)

\* revenue.py:289-316, expenses.py:27-36  one row per date of the range; revenue on
\* the operating dates of the asset's life, opex from operating start on
CashRows(date_range, cod, life, profile) ==
    [d \in {date_range[i] : i \in 1..Len(date_range)} |->
        LET operating == d >= cod /\ d < AddYears(cod, life)
        IN [revenue    |-> IF operating THEN profile.contracted + profile.merchant ELSE 0,
            contracted |-> IF operating THEN profile.contracted ELSE 0,
            merchant   |-> IF operating THEN profile.merchant ELSE 0,
            opex       |-> IF d >= cod THEN profile.opex ELSE 0]]

NoRows == [d \in {} |-> 0]

PortInit ==
    /\ \E n \in 1..MaxAssets :
       \E capexes \in [1..n -> CapexChoices], profiles \in [1..n -> CashChoices],
          method \in Methods, freq \in Frequencies, grace \in {"none", "full_period"} :
          LET date_range == DateRange(0, MaxMonths)
              present    == {i \in 1..n : capexes[i] # "none"}
          IN call =
               [assets |-> [i \in 1..n |->
                              [id |-> i, name |-> AssetName(i),
                               assetStartDate |-> AssetCod(i), assetLife |-> 1]],
                debt_assumptions |->
                    [nm \in {AssetName(i) : i \in present} |->
                        LET i == CHOOSE j \in present : AssetName(j) = nm
                        IN [capex |-> CapexOf(capexes[i]), maxGearing |-> 70, interestRate |-> 6,
                            tenorYears |-> MaxTenor,
                            targetDSCRContract |-> 140, targetDSCRMerchant |-> 180]],
                capex_schedule |->
                    [i \in 1..n |->
                        CapexRows(date_range, DateOf(0, 1), AssetCod(i),
                                  CapexOf(capexes[i]), "straight")],
                cash_flow_df |->
                    [i \in 1..n |->
                        IF profiles[i] = "none" THEN NoRows
                        ELSE CashRows(date_range, AssetCod(i), 1, ProfileOf(profiles[i]))],
                date_range |-> date_range,
                repayment_frequency |-> freq,
                grace_period |-> grace,
                debt_sizing_method |-> method]
    /\ asset_i = 1
    /\ all_debt_schedules = <<>>
    /\ updated_capex_schedules = <<>>
    /\ optimal_debts = <<>>
    /\ raised = None
    /\ ppc = "loop"
    /\ cash_flows = <<>> /\ target_dscrs = <<>> /\ interest_rate = 0 /\ tenor_years = 0
    /\ AnnualIdle
    /\ SolveIdle
    /\ GenIdle
    /\ AggIdle
    /\ RunIdle
    /\ XirrIdle
    /\ IrrIdle
    /\ BlendIdle

\* debt.py:457-578  one pass of the loop over the assets, completing
PortAsset ==
    /\ ppc = "loop"
    /\ asset_i <= Len(call.assets)
    /\ \E asset \in {call.assets[asset_i]} : \E o \in {AssetOutcome(asset, call)} :
          /\ o.kind = "ok"
          /\ optimal_debts' = Append(optimal_debts, o.optimal_debt)
          /\ IF TotalCapexOf(asset, call) > 0
             THEN /\ updated_capex_schedules' =
                        Append(updated_capex_schedules, SplitCapex(asset, call, o.optimal_debt))
                  /\ all_debt_schedules' =
                        IF o.debt_schedule # EmptyFrame
                        THEN Append(all_debt_schedules,
                                    [asset_id |-> asset.id, rows |-> o.debt_schedule])
                        ELSE all_debt_schedules
             ELSE UNCHANGED <<updated_capex_schedules, all_debt_schedules>>
    /\ asset_i' = asset_i + 1
    /\ UNCHANGED <<call, raised, ppc, argVars, annualVars, solveVars, genVars, aggVars, runVars, xirrVars, irrVars, blendVars>>

\* one pass of the loop that raises: the exception leaves calculate_debt_schedule
PortAssetRaises ==
    /\ ppc = "loop"
    /\ asset_i <= Len(call.assets)
    /\ \E o \in {AssetOutcome(call.assets[asset_i], call)} :
          /\ o.kind = "raise"
          /\ \E x \in o.exceptions : raised' = Val(x)
    /\ ppc' = "raised"
    /\ UNCHANGED <<call, asset_i, all_debt_schedules, updated_capex_schedules,
                   optimal_debts, argVars, annualVars, solveVars, genVars, aggVars, runVars, xirrVars, irrVars, blendVars>>

\* debt.py:580-597
PortReturn ==
    /\ ppc = "loop"
    /\ asset_i > Len(call.assets)
    /\ ppc' = "done"
    /\ UNCHANGED <<call, asset_i, all_debt_schedules, updated_capex_schedules,
                   optimal_debts, raised, argVars, annualVars, solveVars, genVars, aggVars, runVars, xirrVars, irrVars, blendVars>>

PortNext == PortAsset \/ PortAssetRaises \/ PortReturn

SpecPortfolio == PortInit /\ [][PortNext]_vars


\* the debt schedules appended for asset id
SchedulesOf(id) ==
    {k \in 1..Len(all_debt_schedules) : all_debt_schedules[k].asset_id = id}

\* C8: with the DSCR method, an asset whose debt assumptions give capex = 0 (or
\* that has no assumptions entry) does not make calculate_debt_schedule raise: it
\* gets debt 0 and no debt schedule rows, and the assets after it are processed.
C8_ZeroCapexNotFatal ==
    \A i \in 1..Len(call.assets) :
       (call.debt_sizing_method = "dscr" /\ AssumedCapex(call, call.assets[i]) = 0)
          => /\ ~(ppc = "raised" /\ asset_i = i)
             /\ (asset_i > i => optimal_debts[i] = 0 /\ SchedulesOf(i) = {})

\* C9 (first case): with the DSCR method, an asset with capex > 0 and no
\* revenue/opex rows does not make calculate_debt_schedule raise and is sized at 0.
C9_NoRowsZeroDebt ==
    \A i \in 1..Len(call.assets) :
       ( /\ call.debt_sizing_method = "dscr"
         /\ AssumedCapex(call, call.assets[i]) > 0
         /\ DOMAIN call.cash_flow_df[i] = {} )
          => /\ ~(ppc = "raised" /\ asset_i = i)
             /\ (asset_i > i => optimal_debts[i] = 0)

\* C10: a call with a debt_sizing_method other than 'dscr'/'annuity' or a
\* repayment_frequency other than 'monthly'/'quarterly' never returns normally:
\* it ends with an error reported to the caller.
C10_InvalidConfigurationFails ==
    ppc = "done"
       => /\ call.debt_sizing_method \in {"dscr", "annuity"}
          /\ KnownFrequency(call.repayment_frequency)

\* C10, the two halves separately
C10_UnknownMethodFails ==
    ppc = "done" => call.debt_sizing_method \in {"dscr", "annuity"}
C10_UnknownFrequencyFails ==
    (ppc = "done" /\ call.debt_sizing_method \in {"dscr", "annuity"}
        /\ \E i \in 1..Len(call.assets) : optimal_debts[i] > 0)
       => KnownFrequency(call.repayment_frequency)

(***************************************************************************)
(* aggregate_cashflows  (cashflow.py:6-67)                                 *)
(*                                                                         *)
(* A DataFrame is a sequence of rows (records).  revenue is the left table *)
(* of the three merges; opex, capex and debt_schedule are keyed by         *)
(* (asset_id, date) and hold at most one row per key, as their producers   *)
(* write one row per asset and date.  The function has no print, logging   *)
(* or raise statement: nothing is ever appended to printed.                *)
(***************************************************************************)
MaxAggAssets == 2
AggMonths    == 3
\* first month of the analysis period of the aggregation runs
AggFirstMonth == 10
\* operating starts: first of January, first of February, mid-February
StartDates    == {DateOf(0, 1), DateOf(1, 1), DateOf(1, 15)}
TerminalChoices  == {"no_entry", "zero", "positive"}
ComponentChoices == {"all", "revenue_only"}

\* config.py:  ENABLE_TERMINAL_VALUE
ENABLE_TERMINAL_VALUE == TRUE

\* the right-hand row of a left merge: the row of the table with this key, or NaN
\* in every column when the table has none
Lookup(table, asset_id, date) ==
    IF <<asset_id, date>> \in DOMAIN table THEN Val(table[<<asset_id, date>>]) ELSE None

\* cashflow.py:26  fillna(0) on one merged column
FillNa(found, column) == IF IsNone(found) THEN 0 ELSE found.v[column]

\* the same line with 0 for a period without debt service
DscrZeroDefault(cfads, service) == IF service # 0 THEN Val((cfads * 100) \div service) ELSE Val(0)

\* cashflow.py:33  cfads / debt_service, None when there is no debt service
\* (kept in hundredths)
Dscr(cfads, service) == IF service # 0 THEN Val((cfads * 100) \div service) ELSE None

\* the same line without the equity share of capex
EquityCashFlowBeforeCapex(cfads, interest, principal, equity_capex) ==
    cfads - interest - principal

\* cashflow.py:34
EquityCashFlow(cfads, interest, principal, equity_capex) ==
    cfads - interest - principal - equity_capex

\* cashflow.py:21-34  one merged row with its computed lines
MergedRow(rev, opex, capex_df, debt_schedule) ==
    LET o == Lookup(opex, rev.asset_id, rev.date)
        c == Lookup(capex_df, rev.asset_id, rev.date)
        d == Lookup(debt_schedule, rev.asset_id, rev.date)
        opex_v       == FillNa(o, "opex")
        equity_capex == FillNa(c, "equity_capex")
        interest     == FillNa(d, "interest")
        principal    == FillNa(d, "principal")
        cfads        == rev.revenue - opex_v
    IN  [asset_id |-> rev.asset_id, date |-> rev.date,
         revenue |-> rev.revenue, opex |-> opex_v,
         capex |-> FillNa(c, "capex"), equity_capex |-> equity_capex,
         debt_capex |-> FillNa(c, "debt_capex"),
         beginning_balance |-> FillNa(d, "beginning_balance"),
         drawdowns |-> FillNa(d, "drawdowns"),
         interest |-> interest, principal |-> principal,
         ending_balance |-> FillNa(d, "ending_balance"),
         cfads |-> cfads,
         dscr |-> Dscr(cfads, interest + principal),
         equity_cash_flow |-> EquityCashFlow(cfads, interest, principal, equity_capex),
         terminal_value |-> None]

\* cashflow.py:21-34
MergeAll(a) ==
    [k \in 1..Len(a.revenue) |->
        MergedRow(a.revenue[k], a.opex, a.capex, a.debt_schedule)]

\* the end of the asset's life itself
TerminalValueDateAtLifeEnd(asset_info) ==
    AddYears(asset_info.OperatingStartDate, asset_info.assetLife)

\* cashflow.py:46, 54  the month before the end of the asset's life
TerminalValueDate(asset_info) ==
    AddMonths(AddYears(asset_info.OperatingStartDate, asset_info.assetLife), -1)

\* cashflow.py:57  terminal_value_date in cash_flow['date'].values
DateInFrame(frame, date) == \E k \in 1..Len(frame) : frame[k].date = date

\* a mask on the date alone: the rows of every asset at that date
TerminalMaskAnyAsset(row, asset_id, terminal_value_date) ==
    row.date = terminal_value_date

\* cashflow.py:59, 63  the rows the terminal value is written to
TerminalMask(row, asset_id, terminal_value_date) ==
    row.asset_id = asset_id /\ row.date = terminal_value_date

\* cashflow.py:40-65  the body of the terminal-value loop for one asset_info
ApplyTerminalValue(frame, asset_info, asset_cost_assumptions) ==
    IF asset_info.name \in DOMAIN asset_cost_assumptions
    THEN LET asset_tv == asset_cost_assumptions[asset_info.name].terminalValue
             terminal_value_date == TerminalValueDate(asset_info)
         IN  IF asset_tv > 0 /\ DateInFrame(frame, terminal_value_date)
             THEN [k \in 1..Len(frame) |->
                     IF TerminalMask(frame[k], asset_info.id, terminal_value_date)
                     THEN [frame[k] EXCEPT
                             !.terminal_value = Val(asset_tv),
                             !.equity_cash_flow = @ + asset_tv]
                     ELSE frame[k]]
             ELSE frame
    ELSE frame

\* ---- the inputs of the runs ---------------------------------------------
\* revenue.py:289-323  one revenue row per asset and date, in asset order
RevenueRows(n, date_range) ==
    [k \in 1..(n * Len(date_range)) |->
        LET i == ((k - 1) \div Len(date_range)) + 1
            d == date_range[((k - 1) % Len(date_range)) + 1]
        IN  [asset_id |-> i, date |-> d,
             revenue |-> 1000 * i + 10 * (MonthIndex(d) % 7)]]

\* expenses.py:27-41  opex rows of the assets that have them
OpexRows(ids, date_range) ==
    [key \in ids \X {date_range[j] : j \in 1..Len(date_range)} |->
        [opex |-> 300 + key[1]]]

\* debt.py:560-574  capex rows with the debt/equity split
SplitCapexRows(ids, date_range) ==
    [key \in ids \X {date_range[j] : j \in 1..Len(date_range)} |->
        [capex |-> 50, debt_capex |-> 30, equity_capex |-> 20]]

\* debt.py:339-347  debt schedule rows
DebtRows(ids, date_range) ==
    [key \in ids \X {date_range[j] : j \in 1..Len(date_range)} |->
        IF key[2] = date_range[1]
        THEN \* a row before the first payment date
             [beginning_balance |-> 5000, drawdowns |-> 0, interest |-> 0,
              principal |-> 0, ending_balance |-> 5000]
        ELSE [beginning_balance |-> 5000, drawdowns |-> 0, interest |-> 40 + key[1],
              principal |-> 60, ending_balance |-> 4940]]

AggTerminalValueOf(choice, i) == IF choice = "positive" THEN 500 * i ELSE 0

AggInputs ==
    UNION { { LET date_range == DateRange(AggFirstMonth, AggMonths)
                  full       == {i \in 1..n : components[i] = "all"}
                  entered    == {i \in 1..n : terminal[i] # "no_entry"}
              IN  [assets_data |->
                      [i \in 1..n |->
                          [id |-> i, name |-> AssetName(i),
                           OperatingStartDate |-> starts[i],
                           assetLife |-> 1]],
                   asset_cost_assumptions |->
                      [nm \in {AssetName(i) : i \in entered} |->
                          [terminalValue |->
                              AggTerminalValueOf(
                                 terminal[CHOOSE i \in entered : AssetName(i) = nm],
                                 CHOOSE i \in entered : AssetName(i) = nm)]],
                   revenue |-> RevenueRows(n, date_range),
                   opex |-> OpexRows(full, date_range),
                   capex |-> SplitCapexRows(full, date_range),
                   debt_schedule |-> DebtRows(full, date_range)]
              : starts \in [1..n -> StartDates],
                terminal \in [1..n -> TerminalChoices],
                components \in [1..n -> ComponentChoices] }
          : n \in 1..MaxAggAssets }

AggInit ==
    /\ agg \in AggInputs
    /\ cash_flow = <<>>
    /\ asset_info_i = 0
    /\ printed = <<>>
    /\ cpc = "merge"
    /\ cash_flows = <<>> /\ target_dscrs = <<>> /\ interest_rate = 0 /\ tenor_years = 0
    /\ AnnualIdle
    /\ SolveIdle
    /\ GenIdle
    /\ PortIdle
    /\ RunIdle
    /\ XirrIdle
    /\ IrrIdle
    /\ BlendIdle

\* cashflow.py:21-34
AggMerge ==
    /\ cpc = "merge"
    /\ cash_flow' = MergeAll(agg)
    /\ asset_info_i' = 1
    /\ cpc' = "terminal"
    /\ UNCHANGED <<agg, printed, argVars, annualVars, solveVars, genVars, portVars, runVars, xirrVars, irrVars, blendVars>>

\* cashflow.py:39-65  one asset_info of the loop
AggTerminal ==
    /\ cpc = "terminal"
    /\ ENABLE_TERMINAL_VALUE
    /\ asset_info_i <= Len(agg.assets_data)
    /\ cash_flow' = ApplyTerminalValue(cash_flow, agg.assets_data[asset_info_i],
                                       agg.asset_cost_assumptions)
    /\ asset_info_i' = asset_info_i + 1
    /\ UNCHANGED <<agg, printed, cpc, argVars, annualVars, solveVars, genVars, portVars,
                   runVars, xirrVars, irrVars, blendVars>>

\* cashflow.py:67
AggReturn ==
    /\ cpc = "terminal"
    /\ ENABLE_TERMINAL_VALUE => asset_info_i > Len(agg.assets_data)
    /\ cpc' = "done"
    /\ UNCHANGED <<agg, cash_flow, asset_info_i, printed, argVars, annualVars,
                   solveVars, genVars, portVars, runVars, xirrVars, irrVars, blendVars>>

AggNext == AggMerge \/ AggTerminal \/ AggReturn

SpecAggregate == AggInit /\ [][AggNext]_vars

\* ---- C2 -------------------------------------------------------------------
\* the asset_info a row belongs to
AssetOfRow(row) ==
    agg.assets_data[CHOOSE i \in 1..Len(agg.assets_data) :
                       agg.assets_data[i].id = row.asset_id]

\* the terminal value of the row: the asset's terminal value when the row is
\* dated at the month before the end of the asset's life, otherwise nothing
TerminalAmount(row) ==
    LET a == AssetOfRow(row)
    IN  IF /\ a.name \in DOMAIN agg.asset_cost_assumptions
           /\ row.date = a.OperatingStartDate + 1200 * a.assetLife - 100
        THEN agg.asset_cost_assumptions[a.name].terminalValue
        ELSE 0

RowKeys == {<<cash_flow[k].asset_id, cash_flow[k].date>> : k \in 1..Len(cash_flow)}

\* C2: every row returned by aggregate_cashflows has equity_cash_flow = cfads -
\* interest - principal - equity_capex, except the one row of an asset dated at
\* its terminal-value period, which has exactly the asset's terminal value on top,
\* once; and there is one row per asset and date.
C2_EquityCashFlowInvariant ==
    cpc = "done" =>
       /\ Cardinality(RowKeys) = Len(cash_flow)
       /\ \A k \in 1..Len(cash_flow) :
             LET row == cash_flow[k]
             IN  /\ row.cfads = row.revenue - row.opex
                 /\ row.equity_cash_flow =
                       row.cfads - row.interest - row.principal - row.equity_capex
                          + TerminalAmount(row)

\* a returned frame in which one asset's terminal value was added on its row and
\* another row of the same date carries none
C2_Witness ==
    /\ cpc = "done"
    /\ \E k, j \in 1..Len(cash_flow) :
          /\ k # j
          /\ cash_flow[k].date = cash_flow[j].date
          /\ ~IsNone(cash_flow[k].terminal_value)
          /\ cash_flow[k].terminal_value.v > 0
          /\ cash_flow[k].equity_capex > 0
          /\ cash_flow[k].interest + cash_flow[k].principal > 0
          /\ IsNone(cash_flow[j].terminal_value)

(***************************************************************************)
(* solve_maximum_debt on amounts beyond the machine integers of the model  *)
(* (debt.py:126-189).  The iteration cap of the search is reached with the *)
(* interval still wider than the tolerance only when capex x max_gearing   *)
(* exceeds tolerance x 2^max_iterations (about 1.1e18).  Such amounts are  *)
(* kept as three limbs <<high, middle, low>> to the base Limb; the floats  *)
(* of the code hold every bound of these runs exactly (at most 53          *)
(* significant bits).  The runs are those in which the year loop of        *)
(* calculate_annual_debt_schedule has no pass (tenor_years = 0, or an      *)
(* empty cash_flows list: debt.py:57-59), so that the simulation needs no  *)
(* arithmetic on the amount beyond a comparison.                           *)
(***************************************************************************)
Limb == 2 ^ 21

BigOf(n) == <<0, n \div Limb, n % Limb>>
BigZero  == <<0, 0, 0>>

BigLess(a, b) ==
    \/ a[1] < b[1]
    \/ a[1] = b[1] /\ a[2] < b[2]
    \/ a[1] = b[1] /\ a[2] = b[2] /\ a[3] < b[3]

BigAdd(a, b) ==
    LET low  == a[3] + b[3]
        mid  == a[2] + b[2] + (low \div Limb)
    IN  <<a[1] + b[1] + (mid \div Limb), mid % Limb, low % Limb>>

\* a - b for a >= b
BigSub(a, b) ==
    LET low  == a[3] - b[3]
        bl   == IF low < 0 THEN 1 ELSE 0
        mid  == a[2] - b[2] - bl
        bm   == IF mid < 0 THEN 1 ELSE 0
    IN  <<a[1] - b[1] - bm, mid + bm * Limb, low + bl * Limb>>

BigHalf(a) ==
    LET mid == (a[1] % 2) * Limb + a[2]
        low == (mid % 2) * Limb + a[3]
    IN  <<a[1] \div 2, mid \div 2, low \div 2>>

\* (a * k) \div 100 for a percentage k
BigPercent(a, k) ==
    LET p3 == a[3] * k
        p2 == a[2] * k + (p3 \div Limb)
        p1 == a[1] * k + (p2 \div Limb)
        m2 == p2 % Limb
        m3 == p3 % Limb
        q1 == p1 \div 100
        r1 == p1 % 100
        q2 == (r1 * Limb + m2) \div 100
        r2 == (r1 * Limb + m2) % 100
        q3 == (r2 * Limb + m3) \div 100
    IN  <<q1, q2, q3>>

\* debt.py:47-59, 87  the simulation when the year loop has no pass: the balance
\* list is the debt followed by tenor_years zeros, and fully_repaid reads its last item
FullyRepaidLarge(debt, cfs, tenor) ==
    LET balance_list == [i \in 0..tenor |-> IF i = 0 THEN debt ELSE BigZero]
    IN  BigLess(balance_list[tenor], BigOf(RepaidTolerance))

\* debt.py:145
LargeSearchContinues ==
    /\ iteration < max_iterations
    /\ BigLess(BigOf(tolerance), BigSub(upper_bound, lower_bound))

\* capex of the runs: 2^40, 2^60, 2^61 and 2^62
LargeCapexValues == {<<0, 2 ^ 19, 0>>, <<2 ^ 18, 0, 0>>, <<2 ^ 19, 0, 0>>, <<2 ^ 20, 0, 0>>}
LargeGearingValues == {50, 100}
LargeCashFlows == {<<>>, <<6000>>}

LargeInit ==
    /\ capex \in LargeCapexValues
    /\ max_gearing \in LargeGearingValues
    /\ cash_flows \in LargeCashFlows
    /\ target_dscrs = [i \in 1..Len(cash_flows) |-> 150]
    /\ interest_rate \in RateValues
    /\ tenor_years \in 0..MaxTenor
    /\ (cash_flows = <<>> \/ tenor_years = 0)
    /\ lower_bound = BigZero
    /\ upper_bound = BigZero
    /\ best_debt = BigZero
    /\ best_schedule = None
    /\ iteration = 0
    /\ test_debt = BigZero
    /\ result = None
    /\ pc = "entry"
    /\ AnnualIdle
    /\ GenIdle
    /\ PortIdle
    /\ AggIdle
    /\ RunIdle
    /\ XirrIdle
    /\ IrrIdle
    /\ BlendIdle

\* debt.py:126-144
LargeStart ==
    /\ pc = "entry"
    /\ capex # BigZero
    /\ lower_bound' = BigZero
    /\ upper_bound' = BigPercent(capex, max_gearing)
    /\ best_debt' = BigZero
    /\ pc' = "loop"
    /\ UNCHANGED <<capex, max_gearing, best_schedule, iteration, test_debt, result,
                   argVars, annualVars, genVars, portVars, aggVars, runVars, xirrVars, irrVars, blendVars>>

\* debt.py:145-168
LargeIterate ==
    /\ pc = "loop"
    /\ LargeSearchContinues
    /\ LET test == BigHalf(BigAdd(lower_bound, upper_bound))
       IN  /\ test_debt' = test
           /\ IF FullyRepaidLarge(test, cash_flows, tenor_years)
              THEN /\ lower_bound' = test
                   /\ best_debt' = test
                   /\ UNCHANGED upper_bound
              ELSE /\ upper_bound' = test
                   /\ UNCHANGED <<lower_bound, best_debt>>
    /\ iteration' = iteration + 1
    /\ UNCHANGED <<capex, max_gearing, best_schedule, result, pc,
                   argVars, annualVars, genVars, portVars, aggVars, runVars, xirrVars, irrVars, blendVars>>

\* debt.py:170-189
LargeReturn ==
    /\ pc = "loop"
    /\ ~LargeSearchContinues
    /\ result' = [kind |-> "dict", debt |-> Val(best_debt)]
    /\ pc' = "done"
    /\ UNCHANGED <<capex, max_gearing, lower_bound, upper_bound, best_debt,
                   best_schedule, iteration, test_debt,
                   argVars, annualVars, genVars, portVars, aggVars, runVars, xirrVars, irrVars, blendVars>>

LargeNext == LargeStart \/ LargeIterate \/ LargeReturn

SpecLargeSearch == LargeInit /\ [][LargeNext]_vars

\* the search ended on the iteration cap with the interval wider than the tolerance
CapExhausted ==
    /\ pc = "done"
    /\ iteration = max_iterations
    /\ BigLess(BigOf(tolerance), BigSub(upper_bound, lower_bound))

\* C11: when the binary search of solve_maximum_debt stops on the iteration cap
\* (50) with upper_bound - lower_bound still greater than the tolerance, the
\* result is an explicit undefined value, not the best debt found so far.
C11_CapExhaustedUndefined ==
    CapExhausted => IsNone(result.debt)

(***************************************************************************)
(* run_cashflow_model  (main.py:35-84): the model horizon derived from the *)
(* assets, the revenue / opex / capex series over it, and the call of      *)
(* calculate_debt_schedule with the configured defaults.                   *)
(***************************************************************************)
MaxRunAssets == 2
RunConstructionStarts == {DateOf(10, 1), DateOf(12, 1)}
RunOperatingStarts    == {DateOf(14, 1), DateOf(15, 1)}
RunCapexChoices       == {"zero", "positive"}
RunCashChoices        == {"mid", "high"}
\* monthly revenue and opex of an operating month
RunProfileOf(choice) ==
    IF choice = "mid" THEN [contracted |-> 1000, merchant |-> 500, opex |-> 500]
                      ELSE ProfileOf(choice)

SetMax(S) == CHOOSE x \in S : \A y \in S : x >= y

\* main.py:44-50, 65  the earliest constructionStartDate of the assets
EarliestConstructionStart(assets) ==
    SetMin({assets[i].constructionStartDate : i \in 1..Len(assets)})

\* main.py:52-63, 66  the latest assetStartDate + assetLife years
LatestOpsEnd(assets) ==
    SetMax({AddYears(assets[i].assetStartDate, assets[i].assetLife) : i \in 1..Len(assets)})

\* pd.date_range(start=start_date, end=end_date, freq='MS'): the month starts
\* from start to end, both included
MonthStarts(first, last) ==
    LET m0 == IF first % 100 = 1 THEN MonthIndex(first) ELSE MonthIndex(first) + 1
    IN  DateRange(m0, MonthIndex(last) - m0 + 1)

\* config.py:15, 21, 34
DEFAULT_DEBT_REPAYMENT_FREQUENCY == "quarterly"
DEFAULT_DEBT_GRACE_PERIOD        == "full_period"
DEFAULT_DEBT_SIZING_METHOD       == "dscr"

\* main.py:71-81  the arguments calculate_debt_schedule is called with
RunCall(assets, assumptions, first, last) ==
    LET date_range == MonthStarts(first, last)
        ids        == {assets[i].id : i \in 1..Len(assets)}
        of(id)     == assets[CHOOSE i \in 1..Len(assets) : assets[i].id = id]
    IN  [assets |-> assets,
         debt_assumptions |-> assumptions,
         capex_schedule |->
             [id \in ids |->
                 CapexRows(date_range, of(id).constructionStartDate, of(id).assetStartDate,
                           IF of(id).name \in DOMAIN assumptions
                           THEN assumptions[of(id).name].capex ELSE 0,
                           "straight")],
         cash_flow_df |->
             [id \in ids |->
                 CashRows(date_range, of(id).assetStartDate, of(id).assetLife,
                          RunProfileOf(of(id).profile))],
         date_range |-> date_range,
         repayment_frequency |-> DEFAULT_DEBT_REPAYMENT_FREQUENCY,
         grace_period |-> DEFAULT_DEBT_GRACE_PERIOD,
         debt_sizing_method |-> DEFAULT_DEBT_SIZING_METHOD]

RunAssumptions(capexes) ==
    [nm \in {AssetName(i) : i \in DOMAIN capexes} |->
        LET i == CHOOSE j \in DOMAIN capexes : AssetName(j) = nm
        IN  [capex |-> CapexOf(capexes[i]), maxGearing |-> 70, interestRate |-> 6,
             tenorYears |-> MaxTenor,
             targetDSCRContract |-> 140, targetDSCRMerchant |-> 180]]

RunInit ==
    /\ \E n \in 1..MaxRunAssets :
       \E cs \in [1..n -> RunConstructionStarts], os \in [1..n -> RunOperatingStarts],
          capexes \in [1..n -> RunCapexChoices], profiles \in [1..n -> RunCashChoices] :
          /\ ASSETS = [i \in 1..n |->
                         [id |-> i, name |-> AssetName(i),
                          constructionStartDate |-> cs[i], assetStartDate |-> os[i],
                          assetLife |-> 1, profile |-> profiles[i]]]
          /\ ASSET_COST_ASSUMPTIONS = RunAssumptions(capexes)
    /\ start_date = None
    /\ end_date = None
    /\ mpc = "horizon"
    /\ cash_flows = <<>> /\ target_dscrs = <<>> /\ interest_rate = 0 /\ tenor_years = 0
    /\ AnnualIdle
    /\ SolveIdle
    /\ GenIdle
    /\ PortIdle
    /\ AggIdle
    /\ XirrIdle
    /\ IrrIdle
    /\ BlendIdle

\* main.py:36-69
RunHorizon ==
    /\ mpc = "horizon"
    /\ start_date' = Val(EarliestConstructionStart(ASSETS))
    /\ end_date' = Val(LatestOpsEnd(ASSETS))
    /\ mpc' = "series"
    /\ UNCHANGED <<ASSETS, ASSET_COST_ASSUMPTIONS, argVars, annualVars, solveVars,
                   genVars, portVars, aggVars, xirrVars, irrVars, blendVars>>

\* main.py:71-81  the series, and the entry into calculate_debt_schedule (debt.py:451-455)
RunDebtCall ==
    /\ mpc = "series"
    /\ call' = RunCall(ASSETS, ASSET_COST_ASSUMPTIONS, start_date.v, end_date.v)
    /\ asset_i' = 1
    /\ ppc' = "loop"
    /\ mpc' = "debt"
    /\ UNCHANGED <<ASSETS, ASSET_COST_ASSUMPTIONS, start_date, end_date,
                   all_debt_schedules, updated_capex_schedules, optimal_debts, raised,
                   argVars, annualVars, solveVars, genVars, aggVars, xirrVars, irrVars, blendVars>>

RunNext == RunHorizon \/ RunDebtCall \/ PortAsset \/ PortAssetRaises \/ PortReturn

SpecRun == RunInit /\ [][RunNext]_vars

\* ---- C12 ------------------------------------------------------------------
\* the outcome for the asset in the portfolio that holds this asset only
SoloOutcome(asset) ==
    AssetOutcome(asset, RunCall(<<asset>>, ASSET_COST_ASSUMPTIONS,
                                EarliestConstructionStart(<<asset>>),
                                LatestOpsEnd(<<asset>>)))

\* the rows of frame dated as the rows of part are
RowAt(frame, date) == frame[CHOOSE k \in 1..Len(frame) : frame[k].date = date]
HasRowAt(frame, date) == \E k \in 1..Len(frame) : frame[k].date = date

\* C12: the sized debt, the debt schedule and the capex split of an asset depend on
\* that asset's own inputs only: they are what the asset gets in a portfolio of
\* its own, whatever other assets are present (on every date of its own horizon).
C12_AssetIndependent ==
    (mpc = "debt" /\ ppc = "done") =>
       \A i \in 1..Len(ASSETS) :
          LET solo == SoloOutcome(ASSETS[i])
          IN  solo.kind = "ok" =>
                /\ optimal_debts[i] = solo.optimal_debt
                /\ \A j \in SchedulesOf(ASSETS[i].id) :
                      \A k \in 1..Len(solo.debt_schedule) :
                         /\ HasRowAt(all_debt_schedules[j].rows, solo.debt_schedule[k].date)
                         /\ RowAt(all_debt_schedules[j].rows, solo.debt_schedule[k].date)
                               = solo.debt_schedule[k]

\* C12, the sized debt alone
C12_DebtIndependent ==
    (mpc = "debt" /\ ppc = "done") =>
       \A i \in 1..Len(ASSETS) :
          LET solo == SoloOutcome(ASSETS[i])
          IN  solo.kind = "ok" => optimal_debts[i] = solo.optimal_debt

\* ---- C13 ------------------------------------------------------------------
\* the asset has a row in the debt schedule passed to aggregate_cashflows
HasDebtRow(row) == <<row.asset_id, row.date>> \in DOMAIN agg.debt_schedule

\* C13: every row of aggregate_cashflows whose interest + principal is 0 (among
\* them every row without a matching debt-schedule row) has a null dscr, never 0;
\* every other row has dscr = cfads / (interest + principal).
C13_DscrUndefinedWithoutDebtService ==
    cpc \in {"terminal", "done"} =>
       \A k \in 1..Len(cash_flow) :
          LET row == cash_flow[k]
          IN  /\ ~HasDebtRow(row) => row.interest + row.principal = 0
              /\ row.interest + row.principal = 0 => IsNone(row.dscr)
              /\ row.interest + row.principal # 0 =>
                    /\ ~IsNone(row.dscr)
                    /\ row.dscr.v = (row.cfads * 100) \div (row.interest + row.principal)

\* a returned frame with a row without a debt-schedule row, a row whose debt
\* schedule row has no debt service, and a row with debt service
C13_Witness ==
    /\ cpc = "done"
    /\ \E k, j, m \in 1..Len(cash_flow) :
          /\ ~HasDebtRow(cash_flow[k]) /\ IsNone(cash_flow[k].dscr)
          /\ HasDebtRow(cash_flow[j]) /\ IsNone(cash_flow[j].dscr)
          /\ HasDebtRow(cash_flow[m]) /\ ~IsNone(cash_flow[m].dscr)
          /\ cash_flow[m].dscr.v > 0

\* ---- C14, C15 -------------------------------------------------------------
\* what row k carries on top of cfads - interest - principal - equity_capex
Received(k) ==
    cash_flow[k].equity_cash_flow
       - (cash_flow[k].cfads - cash_flow[k].interest - cash_flow[k].principal
             - cash_flow[k].equity_capex)

\* the asset has an entry in the cost assumptions with terminalValue > 0
HasTerminalValue(a) ==
    /\ a.name \in DOMAIN agg.asset_cost_assumptions
    /\ agg.asset_cost_assumptions[a.name].terminalValue > 0

\* the rows of asset a dated (operating start + asset life) - 1 month
TerminalRows(a) ==
    {k \in 1..Len(cash_flow) :
        /\ cash_flow[k].asset_id = a.id
        /\ cash_flow[k].date = a.OperatingStartDate + 1200 * a.assetLife - 100}

AggAssets == {agg.assets_data[i] : i \in 1..Len(agg.assets_data)}

\* C14 as stated: every asset with terminalValue > 0 has exactly one row that
\* receives the amount, its row dated (operating start + asset life) - 1 month.
C14_AsStated ==
    cpc = "done" =>
       \A a \in AggAssets :
          HasTerminalValue(a) =>
             /\ Cardinality(TerminalRows(a)) = 1
             /\ \A k \in TerminalRows(a) :
                   Received(k) = agg.asset_cost_assumptions[a.name].terminalValue

\* C14 amended: an asset with terminalValue > 0 has at most one row dated
\* (operating start + asset life) - 1 month; that row, when the frame has it,
\* receives exactly the amount, and no other row of the frame (another date of the
\* asset, a row of another asset, any row when the frame has no such row)
\* receives anything.
C14_TerminalValueOnItsRowOnly ==
    cpc = "done" =>
       /\ \A a \in AggAssets :
             HasTerminalValue(a) =>
                /\ Cardinality(TerminalRows(a)) <= 1
                /\ \A k \in TerminalRows(a) :
                      Received(k) = agg.asset_cost_assumptions[a.name].terminalValue
       /\ \A k \in 1..Len(cash_flow) :
             (\A a \in AggAssets : HasTerminalValue(a) => k \notin TerminalRows(a))
                => Received(k) = 0

\* a returned frame with two assets with a terminal value: one received it on its
\* row, the other has no row at its date and received nothing
C14_Witness ==
    /\ cpc = "done"
    /\ \E a, b \in AggAssets :
          /\ HasTerminalValue(a) /\ HasTerminalValue(b)
          /\ TerminalRows(a) # {} /\ TerminalRows(b) = {}
          /\ \E k \in TerminalRows(a) : Received(k) > 0
          /\ \A k \in 1..Len(cash_flow) : cash_flow[k].asset_id = b.id => Received(k) = 0

\* C15: when an asset with a positive terminal value has no row at its
\* terminal-value date, nothing is injected and the omission is reported (a line
\* is written for it).
C15_OmissionReported ==
    cpc = "done" =>
       \A a \in AggAssets :
          (HasTerminalValue(a) /\ TerminalRows(a) = {}) =>
             /\ \A k \in 1..Len(cash_flow) : cash_flow[k].asset_id = a.id => Received(k) = 0
             /\ printed # <<>>

\* C15, the first half: nothing is injected
C15_NothingInjected ==
    cpc = "done" =>
       \A a \in AggAssets :
          (HasTerminalValue(a) /\ TerminalRows(a) = {}) =>
             \A k \in 1..Len(cash_flow) : cash_flow[k].asset_id = a.id => Received(k) = 0


(***************************************************************************)
(* xnpv and xirr  (core/equity_irr.py:9-109)                               *)
(*                                                                         *)
(* A date is a day number, which is all xnpv reads of it:                  *)
(* (date - reference_date).days.  A rate and a discount factor are in      *)
(* millionths (RateScale), a cash flow in whole units, a net present value *)
(* in thousandths of a unit (MilliPerUnit).  The floating-point power      *)
(* (1 + rate) ** (days / 365.25) is the binomial series of that power, in  *)
(* millionths; it converges for the rates strictly between -1 and 1.       *)
(***************************************************************************)
RateScale == 10 ^ 6
MilliPerUnit == 10 ^ 3
\* 365.25 days a year: 1461 days in four years
DaysPerFourYears == 1461
PowerTerms == 12
\* tolerance=1e-6 of a unit, widened to the smallest amount a net present value in
\* thousandths can show
XnpvTolerance == 1

NaN == [kind |-> "NaN"]
IsNaN(x) == x.kind = "NaN"
Abs(x) == IF x < 0 THEN -x ELSE x
Sign(x) == IF x > 0 THEN 1 ELSE IF x < 0 THEN -1 ELSE 0
\* the quotient rounded towards zero
TruncDiv(a, b) == Sign(a) * Sign(b) * (Abs(a) \div Abs(b))
\* a * b / RateScale, in parts that stay inside the machine integer
MulScaled(a, b) ==
    LET x  == Abs(a)
        y  == Abs(b)
        x1 == x \div 1000
        x0 == x % 1000
        y1 == y \div 1000
        y0 == y % 1000
    IN Sign(a) * Sign(b) * (x1 * y1 + (x1 * y0 + x0 * y1) \div 1000 + (x0 * y0) \div RateScale)

\* the terms k, k+1, .. of the series of (1 + rate) ** (days_diff / 365.25); term k+1 is
\* term k times rate times (days_diff / 365.25 - k) / (k + 1)
RECURSIVE PowerSeries(_, _, _, _, _)
PowerSeries(rate, days_diff, days_per_four_years, k, term) ==
    IF k > PowerTerms \/ term = 0 THEN 0
    ELSE LET next == TruncDiv(MulScaled(term, rate) * (4 * days_diff - k * days_per_four_years),
                              (k + 1) * days_per_four_years)
         IN term + (CHOOSE r \in {PowerSeries(rate, days_diff, days_per_four_years, k + 1, n) :
                                     n \in {next}} : TRUE)

\* equity_irr.py:37  years_diff = days_diff / 365 in place of 365.25
DiscountFactor365(rate, days_diff) == PowerSeries(rate, days_diff, 4 * 365, 0, RateScale)

\* equity_irr.py:37,43  (1 + rate) ** years_diff with years_diff = days_diff / 365.25
DiscountFactor(rate, days_diff) == PowerSeries(rate, days_diff, DaysPerFourYears, 0, RateScale)

\* equity_irr.py:43  cf / factor, in thousandths
PresentValue(cf, factor) ==
    LET n == Abs(cf) * RateScale
    IN Sign(cf) * ((n \div factor) * MilliPerUnit + ((n % factor) * MilliPerUnit) \div factor)

\* equity_irr.py:33-45  the loop from flow i on
RECURSIVE XnpvFrom(_, _, _, _)
XnpvFrom(rate, cfs, ds, i) ==
    IF i > Len(cfs) THEN 0
    ELSE LET days_diff == ds[i] - ds[1]
             pv == IF rate = -RateScale
                   THEN (IF days_diff > 0 THEN 0 ELSE cfs[i] * MilliPerUnit)
                   ELSE PresentValue(cfs[i], DiscountFactor(rate, days_diff))
         IN pv + (CHOOSE r \in {XnpvFrom(rate, cfs, ds, j) : j \in {i + 1}} : TRUE)

\* equity_irr.py:9-47
Xnpv(rate, cfs, ds) ==
    IF Len(cfs) # Len(ds) THEN Raise({"ValueError"})
    ELSE IF Len(cfs) = 0 THEN Val(0)
    ELSE Val(XnpvFrom(rate, cfs, ds, 1))

\* equity_irr.py:66-73
InvalidInput(cfs, ds) == cfs = <<>> \/ ds = <<>> \/ Len(cfs) # Len(ds) \/ Len(cfs) < 2

\* equity_irr.py:76  the positions of the pairs kept; zip stops at the shorter list
NonZeroPositions(cfs, ds) == {k \in 1..Min(Len(cfs), Len(ds)) : cfs[k] # 0}
RECURSIVE Keep(_, _, _)
Keep(list, positions, k) ==
    IF k > Len(list) THEN <<>>
    ELSE (IF k \in positions THEN <<list[k]>> ELSE <<>>) \o Keep(list, positions, k + 1)

\* equity_irr.py:86
Signs(cfs) == {Sign(cfs[k]) : k \in 1..Len(cfs)}

\* equity_irr.py:78-88  fewer than two flows are left, or they have one sign
DegenerateNever(cfs_clean) == FALSE
Degenerate(cfs_clean) == Len(cfs_clean) < 2 \/ Cardinality(Signs(cfs_clean)) <= 1

\* equity_irr.py:102  -1 < irr_result < 100
InBounds(rate) == -RateScale < rate /\ rate < 100 * RateScale

\* equity_irr.py:102  the two conditions, the bounds first: either order gives the same
\* truth value, as npv_function raises nothing on lists of one length, and the series
\* of DiscountFactor is computed for the rates within the bounds only
AcceptsInBounds(rate, cfs_clean, ds_clean) == InBounds(rate)
Accepts(rate, cfs_clean, ds_clean) ==
    /\ InBounds(rate)
    /\ LET npv == Xnpv(rate, cfs_clean, ds_clean)
       IN npv.kind = "value" /\ Abs(npv.v) < XnpvTolerance

\* What fsolve may hand back (equity_irr.py:98-99): any rate, a root or not, within
\* the bounds or not, or an exception.
SolverRates == {-RateScale, -100000, 0, 100000, 100072, 200000, 100 * RateScale}
SolverRaises == Raise({"Exception"})

MaxFlows == 3
XirrFlowValues == {-1000, 0, 1100}
XirrDayValues == {0, 365, 1461}

\* a direct call of xirr with any two lists
XirrInit ==
    /\ xirr_cash_flows \in SeqUpTo(XirrFlowValues, MaxFlows)
    /\ xirr_dates \in SeqUpTo(XirrDayValues, MaxFlows)
    /\ cash_flows_clean = <<>>
    /\ dates_clean = <<>>
    /\ irr_result = None
    /\ xirr_return = None
    /\ xpc = "call"
    /\ cash_flows = <<>> /\ target_dscrs = <<>> /\ interest_rate = 0 /\ tenor_years = 0
    /\ AnnualIdle
    /\ SolveIdle
    /\ GenIdle
    /\ PortIdle
    /\ AggIdle
    /\ RunIdle
    /\ IrrIdle
    /\ BlendIdle

\* equity_irr.py:65-88  a return of NaN before the solver
XirrRejectInput ==
    /\ xpc = "call"
    /\ \/ InvalidInput(xirr_cash_flows, xirr_dates)
       \/ Degenerate(Keep(xirr_cash_flows, NonZeroPositions(xirr_cash_flows, xirr_dates), 1))
    /\ xirr_return' = NaN
    /\ xpc' = "done"
    /\ UNCHANGED <<xirr_cash_flows, xirr_dates, cash_flows_clean, dates_clean, irr_result,
                   argVars, annualVars, solveVars, genVars, portVars, aggVars, runVars, irrVars, blendVars>>

\* equity_irr.py:65-92  the lists pass, the cleaned lists are built
XirrClean ==
    /\ xpc = "call"
    /\ ~InvalidInput(xirr_cash_flows, xirr_dates)
    /\ LET positions == NonZeroPositions(xirr_cash_flows, xirr_dates)
       IN /\ ~Degenerate(Keep(xirr_cash_flows, positions, 1))
          /\ cash_flows_clean' = Keep(xirr_cash_flows, positions, 1)
          /\ dates_clean' = Keep(xirr_dates, positions, 1)
    /\ xpc' = "solve"
    /\ UNCHANGED <<xirr_cash_flows, xirr_dates, irr_result, xirr_return,
                   argVars, annualVars, solveVars, genVars, portVars, aggVars, runVars, irrVars, blendVars>>

\* equity_irr.py:94-99  fsolve returns
XirrSolve ==
    /\ xpc = "solve"
    /\ \E r \in SolverRates : irr_result' = Val(r)
    /\ xpc' = "validate"
    /\ UNCHANGED <<xirr_cash_flows, xirr_dates, cash_flows_clean, dates_clean, xirr_return,
                   argVars, annualVars, solveVars, genVars, portVars, aggVars, runVars, irrVars, blendVars>>

\* equity_irr.py:98,107-109  fsolve raises, the except clause returns NaN
XirrSolverRaises ==
    /\ xpc = "solve"
    /\ irr_result' = SolverRaises
    /\ xirr_return' = NaN
    /\ xpc' = "done"
    /\ UNCHANGED <<xirr_cash_flows, xirr_dates, cash_flows_clean, dates_clean,
                   argVars, annualVars, solveVars, genVars, portVars, aggVars, runVars, irrVars, blendVars>>

\* equity_irr.py:101-105
XirrValidate ==
    /\ xpc = "validate"
    /\ xirr_return' = IF Accepts(irr_result.v, cash_flows_clean, dates_clean)
                      THEN Val(irr_result.v) ELSE NaN
    /\ xpc' = "done"
    /\ UNCHANGED <<xirr_cash_flows, xirr_dates, cash_flows_clean, dates_clean, irr_result,
                   argVars, annualVars, solveVars, genVars, portVars, aggVars, runVars, irrVars, blendVars>>

XirrNext == XirrRejectInput \/ XirrClean \/ XirrSolve \/ XirrSolverRaises \/ XirrValidate


(***************************************************************************)
(* run_cashflow_model after aggregation  (main.py:86-159): the period type *)
(* of each consolidated row, the equity IRR series, calculate_equity_irr   *)
(* (core/equity_irr.py:111-171) on a DataFrame, which is what main passes. *)
(***************************************************************************)
MaxIrrAssets == 2
FrameDates == <<0, 365, 731>>
\* (constructionStartDate, assetStartDate) of an asset; either may be missing
IrrAssetDates == {<<Val(0), Val(365)>>, <<Val(365), Val(731)>>, <<None, Val(365)>>, <<None, None>>}
\* equity_cash_flow of the rows of an asset, date by date
IrrEquityShapes == {<<-500, 550, 0>>, <<0, -500, 550>>, <<0, 0, 0>>, <<550, 550, 550>>}

\* main.py:99-100
InConstruction(date, construction_start, ops_start) == date >= construction_start /\ date < ops_start
InOperationsAfterStart(date, ops_start) == date > ops_start
InOperations(date, ops_start) == date >= ops_start

\* main.py:91-105  what one asset_info of the loop does to the tag of one row
TagBy(asset_info, row, tag) ==
    IF row.asset_id # asset_info.id THEN tag
    ELSE LET construction_start == asset_info.constructionStartDate
             ops_start          == asset_info.assetStartDate
         IN IF ~IsNone(construction_start) /\ ~IsNone(ops_start)
            THEN IF InOperations(row.date, ops_start.v) THEN "O"
                 ELSE IF InConstruction(row.date, construction_start.v, ops_start.v) THEN "C"
                 ELSE tag
            ELSE IF ~IsNone(ops_start)
            THEN IF InOperations(row.date, ops_start.v) THEN "O" ELSE tag
            ELSE tag

\* main.py:88-105  the loop over assets_data from asset_info k on
RECURSIVE TagLoop(_, _, _, _)
TagLoop(assets, row, tag, k) ==
    IF k > Len(assets) THEN tag
    ELSE CHOOSE r \in {TagLoop(assets, row, t, k + 1) : t \in {TagBy(assets[k], row, tag)}} : TRUE

\* main.py:87-108
AssignPeriodType(df, assets) ==
    [k \in 1..Len(df) |->
        [asset_id |-> df[k].asset_id, date |-> df[k].date,
         equity_cash_flow |-> df[k].equity_cash_flow,
         period_type |-> TagLoop(assets, df[k], "", 1)]]

\* main.py:141-144
EquityIrrRows(df) ==
    {k \in 1..Len(df) : df[k].period_type \in {"C", "O"} /\ df[k].equity_cash_flow # 0}

RECURSIVE Ascending(_)
Ascending(S) == IF S = {} THEN <<>> ELSE <<SetMin(S)>> \o Ascending(S \ {SetMin(S)})
RECURSIVE SumEquity(_, _, _, _)
SumEquity(df, rows, date, k) ==
    IF k > Len(df) THEN 0
    ELSE (IF k \in rows /\ df[k].date = date THEN df[k].equity_cash_flow ELSE 0)
         + SumEquity(df, rows, date, k + 1)

\* main.py:148, equity_irr.py:153-161  groupby('date').sum(): the dates in ascending
\* order, one total a date
GroupedDates(df, rows) == Ascending({df[k].date : k \in rows})
GroupedFlows(df, rows) ==
    LET ds == GroupedDates(df, rows) IN [j \in 1..Len(ds) |-> SumEquity(df, rows, ds[j], 1)]

IrrInit ==
    /\ \E n \in 1..MaxIrrAssets :
       \E ad \in [1..n -> IrrAssetDates], shapes \in [1..n -> IrrEquityShapes] :
          /\ assets_data = [i \in 1..n |->
                              [id |-> i, constructionStartDate |-> ad[i][1],
                               assetStartDate |-> ad[i][2]]]
          /\ final_cash_flow =
                [k \in 1..(n * Len(FrameDates)) |->
                    LET i == ((k - 1) \div Len(FrameDates)) + 1
                        j == ((k - 1) % Len(FrameDates)) + 1
                    IN [asset_id |-> i, date |-> FrameDates[j],
                        equity_cash_flow |-> shapes[i][j]]]
    /\ irr = None
    /\ epc = "assign"
    /\ cash_flows = <<>> /\ target_dscrs = <<>> /\ interest_rate = 0 /\ tenor_years = 0
    /\ AnnualIdle
    /\ SolveIdle
    /\ GenIdle
    /\ PortIdle
    /\ AggIdle
    /\ RunIdle
    /\ XirrIdle
    /\ BlendIdle

\* main.py:87-110
IrrAssignPeriodType ==
    /\ epc = "assign"
    /\ final_cash_flow' = AssignPeriodType(final_cash_flow, assets_data)
    /\ epc' = "irr"
    /\ UNCHANGED <<assets_data, irr, argVars, annualVars, solveVars, genVars, portVars,
                   aggVars, runVars, xirrVars, blendVars>>

\* main.py:141-146,157-159  no row is left: the IRR is NaN
IrrNoRows ==
    /\ epc = "irr"
    /\ EquityIrrRows(final_cash_flow) = {}
    /\ irr' = NaN
    /\ epc' = "done"
    /\ UNCHANGED <<assets_data, final_cash_flow, argVars, annualVars, solveVars, genVars,
                   portVars, aggVars, runVars, xirrVars, blendVars>>

\* main.py:141-151, equity_irr.py:141-164  the series is grouped by date and handed to xirr
IrrCall ==
    /\ epc = "irr"
    /\ EquityIrrRows(final_cash_flow) # {}
    /\ xirr_cash_flows' = GroupedFlows(final_cash_flow, EquityIrrRows(final_cash_flow))
    /\ xirr_dates' = GroupedDates(final_cash_flow, EquityIrrRows(final_cash_flow))
    /\ xpc' = "call"
    /\ epc' = "xirr"
    /\ UNCHANGED <<assets_data, final_cash_flow, irr, cash_flows_clean, dates_clean,
                   irr_result, xirr_return, argVars, annualVars, solveVars, genVars,
                   portVars, aggVars, runVars, blendVars>>

\* equity_irr.py:164-171, main.py:151  what xirr returned becomes irr
IrrReturn ==
    /\ epc = "xirr"
    /\ xpc = "done"
    /\ irr' = (IF ~IsNaN(xirr_return) THEN xirr_return ELSE NaN)
    /\ epc' = "done"
    /\ UNCHANGED <<assets_data, final_cash_flow, argVars, annualVars, solveVars, genVars,
                   portVars, aggVars, runVars, xirrVars, blendVars>>

\* xirr is entered by a direct call or from run_cashflow_model
SpecIrrInit == XirrInit \/ IrrInit
SpecIrrNext == XirrNext \/ IrrAssignPeriodType \/ IrrNoRows \/ IrrCall \/ IrrReturn
SpecIrr == SpecIrrInit /\ [][SpecIrrNext]_vars


\* ---- C16 ------------------------------------------------------------------
\* the flows of the call that are not zero
NonZeroFlows == {k \in 1..Len(xirr_cash_flows) : xirr_cash_flows[k] # 0}
NoSignChange ==
    \/ Cardinality(NonZeroFlows) < 2
    \/ \A k, l \in NonZeroFlows : (xirr_cash_flows[k] > 0) = (xirr_cash_flows[l] > 0)

\* C16: when fewer than two flows of the call are not zero, or all of those have one
\* sign (an all-positive, all-negative or all-zero series, whatever its length and its
\* dates), xirr returns NaN, never a rate.
C16_NoSignChangeUndefined == (xpc = "done" /\ NoSignChange) => IsNaN(xirr_return)

\* a call with three dated flows, all positive, has returned NaN
C16_Witness ==
    /\ xpc = "done"
    /\ Len(xirr_cash_flows) = 3
    /\ Len(xirr_dates) = 3
    /\ \A k \in 1..3 : xirr_cash_flows[k] > 0
    /\ IsNaN(xirr_return)


\* ---- C17 ------------------------------------------------------------------
\* the rate passed the acceptance of equity_irr.py:102 on the cleaned lists
PassedAcceptance(r) ==
    /\ -RateScale < r
    /\ r < 100 * RateScale
    /\ Abs(XnpvFrom(r, cash_flows_clean, dates_clean, 1)) < XnpvTolerance

\* the call failed: lists rejected, fsolve raised, or fsolve's rate not accepted
XirrFailed ==
    \/ IsNone(irr_result)
    \/ irr_result.kind = "raise"
    \/ (irr_result.kind = "value" /\ ~PassedAcceptance(irr_result.v))

\* C17: a finished call of xirr has returned NaN or the rate fsolve gave, and the
\* latter only when that rate lies strictly between -1 and 100 and makes the net
\* present value of the cleaned flows smaller than the tolerance; it has raised
\* nothing; a failed call (empty lists, lengths that differ, a solver error, a rate
\* that is not accepted) has returned NaN, not 0; and the equity IRR of
\* run_cashflow_model is NaN whenever xirr returned NaN or no row was left.
C17_AcceptedRateOrUndefined ==
    /\ xpc = "done" =>
          /\ xirr_return.kind \in {"NaN", "value"}
          /\ xirr_return.kind = "value" =>
                (irr_result = xirr_return /\ PassedAcceptance(xirr_return.v))
          /\ XirrFailed => IsNaN(xirr_return)
    /\ epc = "done" =>
          /\ irr.kind \in {"NaN", "value"}
          /\ (xpc = "idle" \/ IsNaN(xirr_return)) => IsNaN(irr)
          /\ irr.kind = "value" => irr = xirr_return

\* run_cashflow_model has ended with a NaN equity IRR after fsolve gave the rate 0,
\* which is not a root of the series
C17_Witness ==
    /\ epc = "done"
    /\ irr_result = Val(0)
    /\ IsNaN(xirr_return)
    /\ IsNaN(irr)


\* ---- C18 ------------------------------------------------------------------
\* the call xirr([-1000, 1100], [day 0, day 365])
RoundTripCall == xirr_cash_flows = <<-1000, 1100>> /\ xirr_dates = <<0, 365>>
\* xnpv(rate, cash_flows, dates) of the call, in thousandths
XnpvOfCall(rate) == XnpvFrom(rate, xirr_cash_flows, xirr_dates, 1)
\* 0.10 and 0.10007 in millionths
TenPercent == RateScale \div 10
RoundTripRate == TenPercent + 72

\* C18 as stated: for the flows [-1000, 1100] dated day 0 and day 365, xnpv at the rate
\* 0.10 is zero within the tolerance and a returned rate is 0.10 to within a thousandth;
\* and any rate returned by xirr makes xnpv of the same flows and dates zero within the
\* tolerance.
C18_AsStated ==
    xpc = "done" =>
       /\ RoundTripCall =>
             /\ Abs(XnpvOfCall(TenPercent)) < XnpvTolerance
             /\ xirr_return.kind = "value" => Abs(xirr_return.v - TenPercent) <= 1000
       /\ xirr_return.kind = "value" => Abs(XnpvOfCall(xirr_return.v)) < XnpvTolerance

\* C18: for the flows [-1000, 1100] dated day 0 and day 365, a rate returned by xirr is
\* 0.10007 to within a millionth (day 365 is 365/365.25 of a year), and xnpv at the rate
\* 0.10 is 0.065, which is not within the tolerance; any rate returned by xirr makes
\* xnpv of the flows of the call that are not zero, with their dates, zero within the
\* tolerance (with a zero flow dropped from the head of the lists the reference date of
\* xnpv is another, and xnpv of the lists as given is that residual times a power of
\* 1 + rate).
C18_RoundTrip ==
    xpc = "done" =>
       /\ RoundTripCall =>
             /\ XnpvOfCall(TenPercent) = 65
             /\ xirr_return.kind = "value" => Abs(xirr_return.v - RoundTripRate) <= 1
       /\ xirr_return.kind = "value" =>
             Abs(XnpvFrom(xirr_return.v, cash_flows_clean, dates_clean, 1)) < XnpvTolerance

\* the call on the flows of the example has returned the rate 0.10007
C18_Witness == xpc = "done" /\ RoundTripCall /\ xirr_return = Val(RoundTripRate)


\* ---- C19 ------------------------------------------------------------------
Classified == epc \in {"irr", "xirr", "done"}
BothDatesKnown(a) == ~IsNone(a.constructionStartDate) /\ ~IsNone(a.assetStartDate)
AssetsOfRow(k) == {i \in 1..Len(assets_data) : assets_data[i].id = final_cash_flow[k].asset_id}
\* the rows the claim lets into the equity IRR series: dated from the construction
\* start on (from the operating start on when that is the only date known), with a
\* cash flow that is not zero
FromStartRows ==
    {k \in 1..Len(final_cash_flow) :
        /\ final_cash_flow[k].equity_cash_flow # 0
        /\ \E i \in AssetsOfRow(k) :
              LET a == assets_data[i]
              IN IF BothDatesKnown(a)
                 THEN final_cash_flow[k].date >= a.constructionStartDate.v
                 ELSE ~IsNone(a.assetStartDate) /\ final_cash_flow[k].date >= a.assetStartDate.v}

\* C19: after assign_period_type every row of an asset with both dates known is tagged
\* 'C' exactly when construction start <= date < operating start and 'O' exactly when
\* date >= operating start; a row has one tag; a row dated before the construction
\* start has none, and the series handed to xirr is made of the rows dated from the
\* start on only.
C19_PeriodTags ==
    /\ Classified =>
          \A k \in 1..Len(final_cash_flow) : \A i \in AssetsOfRow(k) :
             LET a   == assets_data[i]
                 row == final_cash_flow[k]
             IN BothDatesKnown(a) =>
                   /\ (row.period_type = "C") =
                         (a.constructionStartDate.v <= row.date /\ row.date < a.assetStartDate.v)
                   /\ (row.period_type = "O") = (row.date >= a.assetStartDate.v)
                   /\ row.period_type \in {"", "C", "O"}
                   /\ row.date < a.constructionStartDate.v => row.period_type = ""
    /\ epc \in {"xirr", "done"} /\ xpc # "idle" =>
          /\ xirr_dates = GroupedDates(final_cash_flow, FromStartRows)
          /\ xirr_cash_flows = GroupedFlows(final_cash_flow, FromStartRows)

\* an asset with both dates known has a row with a cash flow before its construction
\* start, a row in construction and a row in operations, and the series went to xirr
C19_Witness ==
    /\ epc = "done"
    /\ xpc = "done"
    /\ \E i \in 1..Len(assets_data) :
          /\ BothDatesKnown(assets_data[i])
          /\ \E k1, k2, k3 \in 1..Len(final_cash_flow) :
                /\ {i} = AssetsOfRow(k1) /\ {i} = AssetsOfRow(k2) /\ {i} = AssetsOfRow(k3)
                /\ final_cash_flow[k1].period_type = ""
                /\ final_cash_flow[k1].equity_cash_flow # 0
                /\ final_cash_flow[k2].period_type = "C"
                /\ final_cash_flow[k3].period_type = "O"


(***************************************************************************)
(* SpecBlended: one call of calculate_blended  (debt.py:9-30).        *)
(* Revenues in whole units, DSCR targets and the result in hundredths.     *)
(***************************************************************************)
BlendRevenueValues == {0, 300, 1000, 2000}
BlendContractTargets == {120, 135, 140}
BlendMerchantTargets == {135, 180, 200}

BlendInit ==
    /\ \E c \in BlendRevenueValues, m \in BlendRevenueValues,
          tc \in BlendContractTargets, tm \in BlendMerchantTargets :
          blend = [contracted_revenue |-> c, merchant_revenue |-> m,
                   target_dscr_contract |-> tc, target_dscr_merchant |-> tm]
    /\ blended = None
    /\ bpc = "call"
    /\ cash_flows = <<>> /\ target_dscrs = <<>> /\ interest_rate = 0 /\ tenor_years = 0
    /\ AnnualIdle
    /\ SolveIdle
    /\ GenIdle
    /\ PortIdle
    /\ AggIdle
    /\ RunIdle
    /\ XirrIdle
    /\ IrrIdle

\* debt.py:9-30
BlendCall ==
    /\ bpc = "call"
    /\ blended' = Val(CalculateBlendedDscr(blend.contracted_revenue, blend.merchant_revenue,
                                                blend.target_dscr_contract,
                                                blend.target_dscr_merchant))
    /\ bpc' = "done"
    /\ UNCHANGED <<blend, argVars, annualVars, solveVars, genVars, portVars, aggVars, runVars,
                   xirrVars, irrVars>>

BlendNext == BlendCall
SpecBlended == BlendInit /\ [][BlendNext]_vars

\* ---- C20 ------------------------------------------------------------------
\* C20: calculate_blended returns the merchant target when total revenue is zero,
\* and otherwise contracted share x contract target + merchant share x merchant target
\* with each share the component over total revenue: total revenue times the result
\* is contracted x contract target + merchant x merchant target, to the hundredth the
\* result is kept in.
C20_BlendedTarget ==
    bpc = "done" =>
       LET c     == blend.contracted_revenue
           m     == blend.merchant_revenue
           total == c + m
           exact == c * blend.target_dscr_contract + m * blend.target_dscr_merchant
       IN IF total = 0
          THEN blended.v = blend.target_dscr_merchant
          ELSE /\ total * blended.v <= exact
               /\ exact < total * (blended.v + 1)

\* a call with both revenues positive, two thirds of it contracted, and two
\* different targets has returned a target strictly between the two
C20_Witness ==
    /\ bpc = "done"
    /\ blend.contracted_revenue = 2 * blend.merchant_revenue
    /\ blend.merchant_revenue > 0
    /\ blend.target_dscr_contract < blend.target_dscr_merchant
    /\ blend.target_dscr_contract < blended.v
    /\ blended.v < blend.target_dscr_merchant


(***************************************************************************)
(* Properties of the returned sizing schedule and of the feasibility test. *)
(***************************************************************************)
\* ---- C21 ------------------------------------------------------------------
\* the periods the sizing simulation has processed
SizedPeriods == 0..(Min(tenor_years, Len(cash_flows)) - 1)

\* C21: in the sizing schedule of the debt returned by solve_maximum_debt, every
\* period with a positive debt service has cash_flow / (interest + principal) at or
\* above the target DSCR of that period.
C21_DscrNotBreached ==
    (pc = "done" /\ result.kind = "dict") =>
       \A y \in SizedPeriods :
          LET service == result.schedule.interest_payments[y]
                            + result.schedule.principal_payments[y]
          IN service > 0 =>
                cash_flows[y + 1] * 100 >= TargetDscr(target_dscrs, y) * service


\* ---- C22 ------------------------------------------------------------------
\* C22: for a tenor of one year or more and a cash-flow series of any length,
\* calculate_annual_debt_schedule reports fully_repaid exactly when the balance left
\* after the last simulated period (period `year`, the number of periods processed) is
\* below the tolerance of 1000, and reports that balance as final_balance.
C22_RepaidIffOutstandingBelowTolerance ==
    (apc = "done" /\ tenor_years >= 1) =>
       /\ metrics.fully_repaid = (debt_balance[year] < RepaidTolerance)
       /\ metrics.final_balance = debt_balance[year]


(* Properties of the schedule generated for a sized debt. *)
\* ---- C23 ----
\* the last row of the schedule appended as entry k of all_debt_schedules
FinalRow(k) == all_debt_schedules[k].rows[Len(all_debt_schedules[k].rows)]

\* C23: when calculate_debt_schedule returns with the DSCR method, the last row of
\* every debt schedule it produced has an ending balance below the sizing tolerance
\* (the call returns the schedules only; a residual has no other way to its caller).
C23_FinalBalanceWithinTolerance ==
    (ppc = "done" /\ call.debt_sizing_method = "dscr") =>
       \A k \in 1..Len(all_debt_schedules) :
          FinalRow(k).ending_balance < RepaidTolerance


\* ---- C24 ----
\* debt.py:289-300  the solution of solve_maximum_debt for the asset, as
\* iterate_debt_sizing obtains it (it keeps solution['debt'] only)
SizingSolution(asset, c) ==
    LET e     == c.debt_assumptions[asset.name]
        years == PrepareAnnualCashFlows(c.cash_flow_df[asset.id]).rows
    IN SolveMaximumDebt(AssumedCapex(c, asset),
                        [k \in 1..Len(years) |-> years[k].cfads],
                        [k \in 1..Len(years) |->
                            CalculateBlendedDscr(years[k].contracted, years[k].merchant,
                                                 e.targetDSCRContract, e.targetDSCRMerchant)],
                        e.maxGearing, e.interestRate, e.tenorYears)

\* payments per year of the repayment frequency
PaymentsPerYear(freq) == IF freq = "monthly" THEN 12 ELSE 4

\* C24: in every schedule produced with the DSCR method, a row that records debt
\* service lies in a tenor year k below the tenor (k = whole years since debt-service
\* start) and records that year's sized annual interest, and that year's sized annual
\* principal capped at the balance, each divided by the payments per year.
C24_SizedAmountsProRated ==
    (ppc = "done" /\ call.debt_sizing_method = "dscr") =>
       \A s \in 1..Len(all_debt_schedules) :
          LET asset  == call.assets[all_debt_schedules[s].asset_id]
              rows   == all_debt_schedules[s].rows
              sized  == SizingSolution(asset, call).schedule
              start  == DebtServiceStart(asset.assetStartDate, call.grace_period,
                                         call.repayment_frequency)
              per    == PaymentsPerYear(call.repayment_frequency)
          IN \A i \in 1..Len(rows) :
                (rows[i].interest > 0 \/ rows[i].principal > 0) =>
                   LET k == (rows[i].date - start) \div 1200
                   IN /\ k \in 0..(call.debt_assumptions[asset.name].tenorYears - 1)
                      /\ rows[i].interest = sized.interest_payments[k] \div per
                      /\ rows[i].principal =
                            Min(sized.principal_payments[k] \div per,
                                rows[i].beginning_balance + rows[i].drawdowns)


\* ---- C25 ----
\* C25: with the annuity method every asset's debt is capex x max_gearing, and every
\* row of its schedule that records debt service with the principal not capped at
\* the balance records one level payment; the level payment of the annuity formula
\* on n payments lies between debt / n and debt / n plus the first period's interest.
C25_AnnuityLevelPayment ==
    (ppc = "done" /\ call.debt_sizing_method = "annuity") =>
       /\ \A i \in 1..Len(call.assets) :
             AssumedCapex(call, call.assets[i]) > 0 =>
                optimal_debts[i] = (AssumedCapex(call, call.assets[i])
                                      * call.debt_assumptions[call.assets[i].name].maxGearing)
                                   \div 100
       /\ \A s \in 1..Len(all_debt_schedules) :
             LET asset == call.assets[all_debt_schedules[s].asset_id]
                 rows  == all_debt_schedules[s].rows
                 e     == call.debt_assumptions[asset.name]
                 debt  == optimal_debts[asset.id]
                 n     == TotalPayments(e.tenorYears, call.repayment_frequency)
                 first == PeriodInterest(debt, PeriodRate(e.interestRate,
                                                          call.repayment_frequency))
                 paid  == {i \in 1..Len(rows) :
                             /\ rows[i].interest + rows[i].principal > 0
                             /\ rows[i].principal
                                   < rows[i].beginning_balance + rows[i].drawdowns}
             IN \A i \in paid :
                   /\ (rows[i].interest + rows[i].principal + 1) * n >= debt
                   /\ rows[i].interest + rows[i].principal <= debt \div n + first + 1
                   /\ \A j \in paid :
                         rows[j].interest + rows[j].principal
                            = rows[i].interest + rows[i].principal


(* Properties of the debt-service start date and of the rows around it. *)
\* ---- C26 ----
\* the rows of the finished schedule dated at or after operating start whose
\* balance, drawdown included, is positive
ServiceableRows ==
    {i \in 1..Len(schedule) :
        schedule[i].date >= gen.cod
           /\ schedule[i].beginning_balance + schedule[i].drawdowns > 0}

\* C26: when generate_debt_schedule is called with the debt-service start of grace
\* policy 'none' (the operating start itself) and a positive interest rate, no row
\* dated before operating start records interest or principal, and the first row at
\* or after operating start that has a positive balance records debt service.
C26_ServiceFromOperatingStart ==
    (gpc = "done" /\ gen.debt_service_start_date = gen.cod /\ gen.annual_interest_rate > 0) =>
       /\ \A i \in 1..Len(schedule) :
             schedule[i].date < gen.cod =>
                schedule[i].interest = 0 /\ schedule[i].principal = 0
       /\ \A i \in ServiceableRows :
             (\A j \in ServiceableRows : i <= j) =>
                schedule[i].interest + schedule[i].principal > 0


\* ---- C27 ----
\* generate_debt_schedule was called with the start date of grace policy
\* 'full_period' (policy 'none' passes the operating start itself)
FullPeriodCall == gpc # "idle" /\ gen.debt_service_start_date # gen.cod
\* the date is the first day of a month
IsMonthBoundary(date) == date = DateOf(MonthIndex(date), 1)

\* C27: the debt-service start date of grace policy 'full_period' is strictly after
\* operating start and is the first day of a month; for quarterly repayment it is
\* the first day of the calendar quarter after the one that contains operating
\* start, for monthly repayment a month boundary no more than a full month after
\* the first boundary that follows operating start.
C27_FullPeriodStartOnBoundary ==
    FullPeriodCall =>
       /\ gen.debt_service_start_date > gen.cod
       /\ IsMonthBoundary(gen.debt_service_start_date)
       /\ gen.repayment_frequency = "quarterly" =>
             gen.debt_service_start_date = DateOf(3 * (MonthIndex(gen.cod) \div 3 + 1), 1)
       /\ gen.repayment_frequency = "monthly" =>
             MonthIndex(gen.debt_service_start_date) - MonthIndex(gen.cod) \in {1, 2}


(* Quarterly interest in generate_debt_schedule. *)
\* ---- C28 ----
\* the balance on which row j accrues and pays: opening balance plus drawdown
RowBalance(j) == schedule[j].beginning_balance + schedule[j].drawdowns
\* row j is a payment: a payment date met with a positive balance
PaysRow(j) == IsPaymentDate(schedule[j].date, gen) /\ RowBalance(j) > 0
\* the last payment row before row i (0: none)
LastPayBefore(i) == SetMax({0} \cup {j \in 1..(i - 1) : PaysRow(j)})
\* the monthly accruals of rows from..to dated at or after debt-service start
RECURSIVE AccrualSum(_, _)
AccrualSum(from, to) ==
    IF to < from THEN 0
    ELSE AccrualSum(from, to - 1)
           + (IF schedule[to].date >= gen.debt_service_start_date
              THEN MonthlyAccrual(RowBalance(to), gen.annual_interest_rate) ELSE 0)
\* the last row the loop has filled
LastFilled == IF gpc = "done" THEN Len(schedule) ELSE row_i - 1

\* C28: under quarterly repayment, in every row the loop of generate_debt_schedule
\* has filled, a payment row records as interest the sum of the monthly accruals of
\* the rows after the previous payment (from debt-service start on) up to itself, a
\* row that is not a payment records interest 0 and principal 0, and the
\* accumulator holds the accruals of the rows after the last payment: 0 right after
\* a payment.
C28_QuarterlyInterestAccumulated ==
    (gpc \in {"loop", "done"} /\ gen.repayment_frequency = "quarterly") =>
       /\ \A i \in FilledRows :
             IF PaysRow(i)
             THEN schedule[i].interest = AccrualSum(LastPayBefore(i) + 1, i)
             ELSE schedule[i].interest = 0 /\ schedule[i].principal = 0
       /\ quarterly_interest_accumulator
             = AccrualSum(LastPayBefore(LastFilled + 1) + 1, LastFilled)
       /\ (LastFilled >= 1 /\ PaysRow(LastFilled)) => quarterly_interest_accumulator = 0

\* a finished quarterly schedule with two payments, the later one recording three
\* months of accruals on a balance that stayed positive in between, and interest
\* accrued again after the last payment
C28_Witness ==
    /\ gpc = "done"
    /\ gen.repayment_frequency = "quarterly"
    /\ \E i, j \in 1..Len(schedule) :
          /\ i + 3 = j
          /\ PaysRow(i) /\ PaysRow(j)
          /\ ~PaysRow(i + 1) /\ RowBalance(i + 1) > 0
          /\ schedule[j].interest
                = 3 * MonthlyAccrual(RowBalance(j), gen.annual_interest_rate)
          /\ schedule[j].interest > 0
    /\ quarterly_interest_accumulator > 0


(* Drawdowns in generate_debt_schedule. *)
\* ---- C29 ----
\* debt.py:350  the total of the capex rows passed to the call
GenTotalCapex == SumCapex(gen.asset_capex, Len(gen.asset_capex))
\* the drawdowns of rows 1..k of the schedule
RECURSIVE DrawnUpTo(_)
DrawnUpTo(k) == IF k = 0 THEN 0 ELSE schedule[k].drawdowns + DrawnUpTo(k - 1)
\* the drawdowns have been populated and the debt is positive
DrawdownsDone == gpc \in {"loop", "done"} /\ gen.debt_amount > 0
\* all of the debt is drawn, up to the rounding of one unit per capex row
FullyDrawn ==
    /\ DrawnUpTo(Len(schedule)) <= gen.debt_amount
    /\ DrawnUpTo(Len(schedule)) > gen.debt_amount - Len(gen.asset_capex)
\* every row's drawdown is min(capex x debt / total capex, debt - drawn so far)
DrawdownsByFormula ==
    \A k \in 1..Len(schedule) :
       schedule[k].drawdowns
          = Min((gen.asset_capex[k].capex * gen.debt_amount) \div GenTotalCapex,
                gen.debt_amount - DrawnUpTo(k - 1))

\* C29 as stated: with debt_amount > 0 the cumulative drawdowns never exceed
\* debt_amount, equal it once every capex row has been processed, and each row's
\* drawdown follows the formula (where the total capex makes it defined).
C29_AsStated ==
    DrawdownsDone =>
       /\ \A k \in 1..Len(schedule) : DrawnUpTo(k) <= gen.debt_amount
       /\ FullyDrawn
       /\ GenTotalCapex > 0 => DrawdownsByFormula

\* C29: with debt_amount > 0 and a positive total capex each row's drawdown follows
\* the formula, the cumulative drawdowns never exceed debt_amount and equal it once
\* every capex row has been processed; with a total capex of 0 nothing is drawn.
C29_DrawdownsFollowCapex ==
    DrawdownsDone =>
       /\ \A k \in 1..Len(schedule) : DrawnUpTo(k) <= gen.debt_amount
       /\ GenTotalCapex > 0 => (DrawdownsByFormula /\ FullyDrawn)
       /\ GenTotalCapex = 0 => DrawnUpTo(Len(schedule)) = 0

\* a finished schedule whose debt, geared below its capex, was drawn in two rows
C29_Witness ==
    /\ gpc = "done"
    /\ gen.debt_amount > 0
    /\ gen.debt_amount < GenTotalCapex
    /\ \E i, j \in 1..Len(schedule) :
          i < j /\ schedule[i].drawdowns > 0 /\ schedule[j].drawdowns > 0
    /\ DrawnUpTo(Len(schedule)) = gen.debt_amount


(* Sources and uses of capex after calculate_debt_schedule. *)
\* ---- C30 ----
\* the updated capex rows appended for asset id (one entry per asset at most)
SplitRowsOf(id) ==
    updated_capex_schedules[CHOOSE k \in 1..Len(updated_capex_schedules) :
                               updated_capex_schedules[k][1].asset_id = id]
\* the rows of the debt schedule appended for asset id
ScheduleRowsOf(id) == all_debt_schedules[CHOOSE k \in SchedulesOf(id) : TRUE].rows
RECURSIVE SumDebtCapex(_, _)
SumDebtCapex(rows, k) == IF k = 0 THEN 0 ELSE rows[k].debt_capex + SumDebtCapex(rows, k - 1)
\* the assets processed so far that have a positive scheduled capex
SplitAssets ==
    {i \in 1..(asset_i - 1) : TotalCapexOf(call.assets[i], call) > 0}

\* C30: for every asset processed by calculate_debt_schedule that has a positive
\* scheduled capex, every row of its updated capex schedule has debt_capex +
\* equity_capex = capex (up to the rounding of one unit); with a positive sized debt
\* the row's debt_capex is the drawdown of the same date in the asset's debt
\* schedule and the debt_capex of all rows add up to the sized debt (up to one unit
\* per row); with a debt of zero every row has debt_capex 0 and equity_capex = capex.
C30_SourcesAndUses ==
    (ppc \in {"loop", "done"}) =>
       \A i \in SplitAssets :
          LET rows == SplitRowsOf(i)
              debt == optimal_debts[i]
          IN /\ \A k \in 1..Len(rows) :
                   /\ rows[k].debt_capex + rows[k].equity_capex <= rows[k].capex
                   /\ rows[k].debt_capex + rows[k].equity_capex >= rows[k].capex - 1
             /\ debt > 0 =>
                   /\ SchedulesOf(i) # {}
                   /\ \A k \in 1..Len(rows) :
                         \E j \in 1..Len(ScheduleRowsOf(i)) :
                            /\ ScheduleRowsOf(i)[j].date = rows[k].date
                            /\ ScheduleRowsOf(i)[j].drawdowns = rows[k].debt_capex
                   /\ SumDebtCapex(rows, Len(rows)) <= debt
                   /\ SumDebtCapex(rows, Len(rows)) > debt - Len(rows)
             /\ debt = 0 =>
                   \A k \in 1..Len(rows) :
                      rows[k].debt_capex = 0 /\ rows[k].equity_capex = rows[k].capex

\* a returned call with an asset sized below its maximum gearing whose capex rows
\* are split between debt and equity and drawn in its debt schedule
C30_Witness ==
    /\ ppc = "done"
    /\ \E i \in SplitAssets :
          /\ optimal_debts[i] > 0
          /\ optimal_debts[i] * 100
                < TotalCapexOf(call.assets[i], call)
                     * call.debt_assumptions[call.assets[i].name].maxGearing
          /\ \E k \in 1..Len(SplitRowsOf(i)) :
                /\ SplitRowsOf(i)[k].debt_capex > 0
                /\ SplitRowsOf(i)[k].equity_capex > 0
                /\ ScheduleRowsOf(i)[k].drawdowns = SplitRowsOf(i)[k].debt_capex

=============================================================================
